---- MODULE Spec2Model ----
(***************************************************************************)
(* A model of the shader compiler of vulkan_shader_complier: the lexer,    *)
(* the recursive-descent parser, the fixed-point optimizer, the GLSL       *)
(* emitter with its temporary files and external translator, and the       *)
(* driver ShaderCompiler::compile that sequences them.                     *)
(*                                                                         *)
(* Source texts, lexemes, error messages and file paths are strings; the   *)
(* AST is a tree of records that carry the node's ASTNodeType in `type`.   *)
(***************************************************************************)
EXTENDS Integers, Sequences, FiniteSets, TLC

(***************************************************************************)
(* Characters and strings (std::string, <cctype>)                          *)
(***************************************************************************)

\* The value currentChar() and peek() return past the end of the source ('\0').
NUL == ""

\* source[p] for a 0-based index p.
CharAt(s, p) == IF p < 0 \/ p >= Len(s) THEN NUL ELSE SubSeq(s, p + 1, p + 1)

isdigit(c) == c \in {"0", "1", "2", "3", "4", "5", "6", "7", "8", "9"}

isalpha(c) ==
    c \in {"a", "b", "c", "d", "e", "f", "g", "h", "i", "j", "k", "l", "m",
           "n", "o", "p", "q", "r", "s", "t", "u", "v", "w", "x", "y", "z",
           "A", "B", "C", "D", "E", "F", "G", "H", "I", "J", "K", "L", "M",
           "N", "O", "P", "Q", "R", "S", "T", "U", "V", "W", "X", "Y", "Z"}

isalnum(c) == isalpha(c) \/ isdigit(c)

isspace(c) == c \in {" ", "\t", "\n", "\r", "\f"}

\* std::string::find(pat) != npos
Find(s, pat) ==
    \E i \in 1..(Len(s) - Len(pat) + 1) : SubSeq(s, i, i + Len(pat) - 1) = pat

DigitChar(d) == SubSeq("0123456789", d + 1, d + 1)

DigitValue(c) == CHOOSE d \in 0..9 : DigitChar(d) = c

\* std::to_string of a non-negative int
RECURSIVE to_string(_)
to_string(n) ==
    IF n < 10 THEN DigitChar(n) ELSE to_string(n \div 10) \o DigitChar(n % 10)

(***************************************************************************)
(* Lexer (compiler/src/lexer.cpp)                                          *)
(***************************************************************************)

\* The keyword map: the token type of a keyword lexeme, IDENTIFIER otherwise.
keywords(value) ==
    CASE value = "shader"   -> "SHADER"
      [] value = "vertex"   -> "VERTEX"
      [] value = "fragment" -> "FRAGMENT"
      [] value = "input"    -> "INPUT"
      [] value = "output"   -> "OUTPUT"
      [] value = "uniform"  -> "UNIFORM"
      [] value = "main"     -> "MAIN"
      [] value = "vec2"     -> "VEC2"
      [] value = "vec3"     -> "VEC3"
      [] value = "vec4"     -> "VEC4"
      [] value = "mat4"     -> "MAT4"
      [] value = "float"    -> "FLOAT"
      [] value = "int"      -> "INT"
      [] OTHER              -> "IDENTIFIER"

\* The single-character tokens of the switch in tokenize; "UNKNOWN" stands for
\* the default branch.
punctuation(c) ==
    CASE c = "+" -> "PLUS"
      [] c = "-" -> "MINUS"
      [] c = "*" -> "MULTIPLY"
      [] c = "/" -> "DIVIDE"
      [] c = "=" -> "ASSIGN"
      [] c = "(" -> "LPAREN"
      [] c = ")" -> "RPAREN"
      [] c = "{" -> "LBRACE"
      [] c = "}" -> "RBRACE"
      [] c = ";" -> "SEMICOLON"
      [] c = "," -> "COMMA"
      [] c = "." -> "DOT"
      [] OTHER   -> "UNKNOWN"

\* A lexer cursor: 0-based position, 1-based line and column.
LexerStart == [position |-> 0, line |-> 1, column |-> 1]

\* Lexer::advance
advanceChar(s, L) ==
    IF L.position < Len(s)
    THEN IF CharAt(s, L.position) = "\n"
         THEN [position |-> L.position + 1, line |-> L.line + 1, column |-> 1]
         ELSE [position |-> L.position + 1, line |-> L.line,
               column |-> L.column + 1]
    ELSE L

\* Lexer::skipWhitespace
RECURSIVE skipWhitespace(_, _)
skipWhitespace(s, L) ==
    IF L.position < Len(s) /\ isspace(CharAt(s, L.position))
    THEN skipWhitespace(s, advanceChar(s, L))
    ELSE L

RECURSIVE skipToLineEnd(_, _)
skipToLineEnd(s, L) ==
    IF CharAt(s, L.position) # "\n" /\ CharAt(s, L.position) # NUL
    THEN skipToLineEnd(s, advanceChar(s, L))
    ELSE L

\* Lexer::skipComment
skipComment(s, L) == skipToLineEnd(s, advanceChar(s, advanceChar(s, L)))

\* The loop of Lexer::readNumber: digits and at most one '.'.
RECURSIVE numberEnd(_, _, _)
numberEnd(s, L, hasDecimal) ==
    LET c == CharAt(s, L.position) IN
    IF isdigit(c) \/ (c = "." /\ ~hasDecimal)
    THEN numberEnd(s, advanceChar(s, L), hasDecimal \/ c = ".")
    ELSE L

\* Lexer::readNumber
readNumber(s, L) ==
    LET E == numberEnd(s, L, FALSE) IN
    [token |-> [type |-> "NUMBER",
                value |-> SubSeq(s, L.position + 1, E.position),
                line |-> L.line, column |-> L.column],
     lexer |-> E]

RECURSIVE identifierEnd(_, _)
identifierEnd(s, L) ==
    LET c == CharAt(s, L.position) IN
    IF isalnum(c) \/ c = "_" THEN identifierEnd(s, advanceChar(s, L)) ELSE L

\* readIdentifier as it would be if a keyword's token carried no lexeme.
readIdentifierWithoutKeywordLexeme(s, L) ==
    LET E == identifierEnd(s, L)
        value == SubSeq(s, L.position + 1, E.position) IN
    [token |-> [type |-> keywords(value),
                value |-> IF keywords(value) = "IDENTIFIER" THEN value ELSE "",
                line |-> L.line, column |-> L.column],
     lexer |-> E]

\* Lexer::readIdentifier
readIdentifier(s, L) ==
    LET E == identifierEnd(s, L)
        value == SubSeq(s, L.position + 1, E.position) IN
    [token |-> [type |-> keywords(value), value |-> value,
                line |-> L.line, column |-> L.column],
     lexer |-> E]

\* Lexer::makeToken
makeToken(type, value, L) ==
    [type |-> type, value |-> value, line |-> L.line, column |-> L.column]

\* One step of Lexer::tokenize with the cursor at L0 and the tokens read so
\* far: one iteration of its while loop or, once the loop is left, the push
\* of the END_OF_FILE token.  The result has the cursor and the tokens after
\* the step, whether tokenize returns (`done`) and, when it throws, the
\* message of its std::runtime_error in `error` ("" otherwise).
tokenizeStep(s, L0, toks) ==
    LET L == IF L0.position < Len(s) THEN skipWhitespace(s, L0) ELSE L0
        c == CharAt(s, L.position)
        eof == [type |-> "END_OF_FILE", value |-> "",
                line |-> L.line, column |-> L.column]
        Continue(lexer, tokens) ==
            [lexer |-> lexer, tokens |-> tokens, done |-> FALSE, error |-> ""]
    IN
    IF L.position >= Len(s)
    THEN [lexer |-> L, tokens |-> Append(toks, eof), done |-> TRUE,
          error |-> ""]
    ELSE IF c = "/" /\ CharAt(s, L.position + 1) = "/"
    THEN Continue(skipComment(s, L), toks)
    ELSE IF isdigit(c) \/ (c = "." /\ isdigit(CharAt(s, L.position + 1)))
    THEN LET r == readNumber(s, L) IN Continue(r.lexer, Append(toks, r.token))
    ELSE IF isalpha(c) \/ c = "_"
    THEN LET r == readIdentifier(s, L) IN
         Continue(r.lexer, Append(toks, r.token))
    ELSE IF punctuation(c) = "UNKNOWN"
    THEN [lexer |-> L, tokens |-> toks, done |-> TRUE,
          error |-> "Unexpected character: " \o c]
    ELSE Continue(advanceChar(s, L),
                  Append(toks, makeToken(punctuation(c), c, L)))

(***************************************************************************)
(* AST nodes (compiler/include/parser.h)                                   *)
(***************************************************************************)

LiteralNode(value) == [type |-> "LITERAL", value |-> value]

IdentifierNode(name) == [type |-> "IDENTIFIER", name |-> name]

BinaryOpNode(op, left, right) ==
    [type |-> "BINARY_OP", op |-> op, left |-> left, right |-> right]

MemberAccessNode(object, member) ==
    [type |-> "MEMBER_ACCESS", object |-> object, member |-> member]

FunctionCallNode(functionName, arguments) ==
    [type |-> "FUNCTION_CALL", functionName |-> functionName,
     arguments |-> arguments]

AssignmentNode(target, value) ==
    [type |-> "ASSIGNMENT", target |-> target, value |-> value]

VariableDeclNode(varType, name) ==
    [type |-> "VARIABLE_DECL", varType |-> varType, name |-> name]

ShaderDeclNode(shaderType, inputs, outputs, statements) ==
    [type |-> "SHADER_DECL", shaderType |-> shaderType, inputs |-> inputs,
     outputs |-> outputs, statements |-> statements]

ProgramNode(declarations) == [type |-> "PROGRAM", declarations |-> declarations]

\* A null std::unique_ptr<ASTNode>.
NullNode == [type |-> "NULL"]

(***************************************************************************)
(* Parser (Parser::parse and the functions it calls)                       *)
(*                                                                         *)
(* Every parse function takes the token vector and the 0-based position    *)
(* and returns the node, the new position and, when it throws, the message *)
(* of its std::runtime_error in `error` ("" otherwise).                    *)
(***************************************************************************)

\* Parser::current
current(toks, pos) == IF pos >= Len(toks) THEN toks[Len(toks)] ELSE toks[pos + 1]

\* Parser::advance
advance(toks, pos) == IF pos < Len(toks) THEN pos + 1 ELSE pos

\* Parser::check
check(toks, pos, type) == current(toks, pos).type = type

\* Parser::isTypeToken
isTypeToken(type) == type \in {"VEC2", "VEC3", "VEC4", "MAT4", "FLOAT", "INT"}

Parsed(node, pos) == [node |-> node, pos |-> pos, error |-> ""]

Thrown(pos, message) == [node |-> NullNode, pos |-> pos, error |-> message]

\* Parser::expect (with Parser::match)
expect(toks, pos, type, message) ==
    IF current(toks, pos).type = type
    THEN Parsed(NullNode, advance(toks, pos))
    ELSE Thrown(pos, "Parse error at line " \o to_string(current(toks, pos).line)
                     \o ": " \o message \o " (got '"
                     \o current(toks, pos).value \o "')")

\* Parser::parseType; the node of the result is the type name.
parseType(toks, pos) ==
    IF ~isTypeToken(current(toks, pos).type)
    THEN Thrown(pos, "Expected type specifier at line "
                     \o to_string(current(toks, pos).line))
    ELSE Parsed(current(toks, pos).value, advance(toks, pos))

RECURSIVE parseExpression(_, _)
\* The loop of parseExpression taking what follows the operator as one
\* expression: + and - associate to the right.
parseExpressionLoopRightAssociative(toks, pos, left) ==
    IF current(toks, pos).type \in {"PLUS", "MINUS"}
    THEN LET again(right) ==
                 IF right.error # "" THEN right
                 ELSE Parsed(BinaryOpNode(current(toks, pos).value, left,
                                          right.node),
                             right.pos)
         IN again(parseExpression(toks, advance(toks, pos)))
    ELSE Parsed(left, pos)

RECURSIVE parseExpressionLoop(_, _, _)
RECURSIVE parseTerm(_, _)
RECURSIVE parseTermLoop(_, _, _)
RECURSIVE parsePrimary(_, _)
RECURSIVE parseFunctionCall(_, _, _)
RECURSIVE parseArguments(_, _, _)

\* Parser::parseExpression
parseExpression(toks, pos) ==
    LET loop(left) ==
            IF left.error # "" THEN left
            ELSE parseExpressionLoop(toks, left.pos, left.node)
    IN loop(parseTerm(toks, pos))

\* The while loop of parseExpression.
parseExpressionLoop(toks, pos, left) ==
    IF current(toks, pos).type \in {"PLUS", "MINUS"}
    THEN LET again(right) ==
                 IF right.error # "" THEN right
                 ELSE parseExpressionLoop(toks, right.pos,
                          BinaryOpNode(current(toks, pos).value, left,
                                       right.node))
         IN again(parseTerm(toks, advance(toks, pos)))
    ELSE Parsed(left, pos)

\* Parser::parseFactor
parseFactor(toks, pos) == parsePrimary(toks, pos)

\* Parser::parseTerm
parseTerm(toks, pos) ==
    LET loop(left) ==
            IF left.error # "" THEN left
            ELSE parseTermLoop(toks, left.pos, left.node)
    IN loop(parseFactor(toks, pos))

\* The while loop of parseTerm.
parseTermLoop(toks, pos, left) ==
    IF current(toks, pos).type \in {"MULTIPLY", "DIVIDE"}
    THEN LET again(right) ==
                 IF right.error # "" THEN right
                 ELSE parseTermLoop(toks, right.pos,
                          BinaryOpNode(current(toks, pos).value, left,
                                       right.node))
         IN again(parseFactor(toks, advance(toks, pos)))
    ELSE Parsed(left, pos)

\* Parser::parsePrimary
parsePrimary(toks, pos) ==
    LET primary(tok, next) ==
            IF tok.type = "NUMBER"
            THEN Parsed(LiteralNode(tok.value), next)
            ELSE IF isTypeToken(tok.type)
            THEN IF current(toks, next).type = "LPAREN"
                 THEN parseFunctionCall(toks, next, tok.value)
                 ELSE Thrown(next, "Expected '(' after type constructor '"
                                   \o tok.value \o "' at line "
                                   \o to_string(current(toks, next).line))
            ELSE IF tok.type = "IDENTIFIER"
            THEN IF current(toks, next).type = "DOT"
                 THEN LET member(mpos) ==
                              IF current(toks, mpos).type # "IDENTIFIER"
                              THEN Thrown(mpos,
                                       "Expected member name after '.' at line "
                                       \o to_string(current(toks, mpos).line))
                              ELSE Parsed(MemberAccessNode(
                                              IdentifierNode(tok.value),
                                              current(toks, mpos).value),
                                          advance(toks, mpos))
                      IN member(advance(toks, next))
                 ELSE IF current(toks, next).type = "LPAREN"
                 THEN parseFunctionCall(toks, next, tok.value)
                 ELSE Parsed(IdentifierNode(tok.value), next)
            ELSE IF tok.type = "LPAREN"
            THEN LET closing(expr) ==
                         IF expr.error # "" THEN expr
                         ELSE LET closed(close) ==
                                      IF close.error # "" THEN close
                                      ELSE Parsed(expr.node, close.pos)
                              IN closed(expect(toks, expr.pos, "RPAREN",
                                            "Expected ')' after expression"))
                 IN closing(parseExpression(toks, next))
            ELSE Thrown(pos, "Unexpected token in expression at line "
                             \o to_string(tok.line) \o ": " \o tok.value)
    IN primary(current(toks, pos), advance(toks, pos))

\* Parser::parseFunctionCall
parseFunctionCall(toks, pos, funcName) ==
    LET arguments(open) ==
            IF open.error # "" THEN open
            ELSE IF current(toks, open.pos).type # "RPAREN"
            THEN LET rest(first) ==
                         IF first.error # "" THEN first
                         ELSE parseArguments(toks, first.pos, <<first.node>>)
                 IN rest(parseExpression(toks, open.pos))
            ELSE Parsed(<<>>, open.pos)
        closing(args) ==
            IF args.error # "" THEN args
            ELSE LET closed(close) ==
                         IF close.error # "" THEN close
                         ELSE Parsed(FunctionCallNode(funcName, args.node),
                                     close.pos)
                 IN closed(expect(toks, args.pos, "RPAREN",
                               "Expected ')' after function arguments"))
    IN closing(arguments(expect(toks, pos, "LPAREN",
                                "Expected '(' after function name")))

\* The while loop of parseFunctionCall over the remaining arguments; the node
\* of the result is the argument vector.
parseArguments(toks, pos, args) ==
    IF current(toks, pos).type = "COMMA"
    THEN LET again(arg) ==
                 IF arg.error # "" THEN arg
                 ELSE parseArguments(toks, arg.pos, Append(args, arg.node))
         IN again(parseExpression(toks, advance(toks, pos)))
    ELSE Parsed(args, pos)

\* Parser::parseStatement
parseStatement(toks, pos) ==
    LET afterTarget(target) ==
            IF target.error # "" THEN target
            ELSE LET afterAssign(assign) ==
                         IF assign.error # "" THEN assign
                         ELSE LET afterValue(value) ==
                                      IF value.error # "" THEN value
                                      ELSE LET afterSemi(semi) ==
                                                   IF semi.error # "" THEN semi
                                                   ELSE Parsed(AssignmentNode(
                                                                   target.node,
                                                                   value.node),
                                                               semi.pos)
                                           IN afterSemi(expect(toks, value.pos,
                                                  "SEMICOLON",
                                                  "Expected ';' after statement"))
                              IN afterValue(parseExpression(toks, assign.pos))
                 IN afterAssign(expect(toks, target.pos, "ASSIGN",
                                       "Expected '=' in assignment"))
    IN afterTarget(parsePrimary(toks, pos))

\* Parser::parseVariableDecl
parseVariableDecl(toks, pos) ==
    LET afterType(type) ==
            IF type.error # "" THEN type
            ELSE IF current(toks, type.pos).type # "IDENTIFIER"
            THEN Thrown(type.pos, "Expected identifier after type at line "
                                  \o to_string(current(toks, type.pos).line))
            ELSE LET afterSemi(semi) ==
                         IF semi.error # "" THEN semi
                         ELSE Parsed(VariableDeclNode(type.node,
                                         current(toks, type.pos).value),
                                     semi.pos)
                 IN afterSemi(expect(toks, advance(toks, type.pos), "SEMICOLON",
                                     "Expected ';' after variable declaration"))
    IN afterType(parseType(toks, pos))

\* The statement loop of a main block in parseShaderDecl; the node of the
\* result is the statement vector.
RECURSIVE parseMainStatements(_, _, _)
parseMainStatements(toks, pos, statements) ==
    IF ~check(toks, pos, "RBRACE") /\ ~check(toks, pos, "END_OF_FILE")
    THEN LET again(stmt) ==
                 IF stmt.error # "" THEN stmt
                 ELSE parseMainStatements(toks, stmt.pos,
                                          Append(statements, stmt.node))
         IN again(parseStatement(toks, pos))
    ELSE Parsed(statements, pos)

\* The body loop of parseShaderDecl; the node of the result is the ShaderDecl.
RECURSIVE parseShaderBody(_, _, _)
parseShaderBody(toks, pos, node) ==
    LET declared(decl, field) ==
            IF decl.error # "" THEN decl
            ELSE parseShaderBody(toks, decl.pos,
                     IF field = "inputs"
                     THEN [node EXCEPT !.inputs = Append(@, decl.node)]
                     ELSE [node EXCEPT !.outputs = Append(@, decl.node)])
        mainBlock(open) ==
            IF open.error # "" THEN open
            ELSE LET afterStatements(stmts) ==
                         IF stmts.error # "" THEN stmts
                         ELSE LET closed(close) ==
                                      IF close.error # "" THEN close
                                      ELSE parseShaderBody(toks, close.pos,
                                               [node EXCEPT
                                                   !.statements = stmts.node])
                              IN closed(expect(toks, stmts.pos, "RBRACE",
                                            "Expected '}' after main block"))
                 IN afterStatements(parseMainStatements(toks, open.pos,
                                                        node.statements))
    IN
    IF ~check(toks, pos, "RBRACE") /\ ~check(toks, pos, "END_OF_FILE")
    THEN IF current(toks, pos).type = "INPUT"
         THEN declared(parseVariableDecl(toks, advance(toks, pos)), "inputs")
         ELSE IF current(toks, pos).type = "OUTPUT"
         THEN declared(parseVariableDecl(toks, advance(toks, pos)), "outputs")
         ELSE IF current(toks, pos).type = "MAIN"
         THEN mainBlock(expect(toks, advance(toks, pos), "LBRACE",
                               "Expected '{' after 'main'"))
         ELSE Thrown(pos, "Unexpected token in shader body at line "
                          \o to_string(current(toks, pos).line) \o ": "
                          \o current(toks, pos).value)
    ELSE Parsed(node, pos)

\* Parser::parseShaderDecl
parseShaderDecl(toks, pos) ==
    LET afterKeyword(kw) ==
            IF kw.error # "" THEN kw
            ELSE IF current(toks, kw.pos).type \notin {"VERTEX", "FRAGMENT"}
            THEN Thrown(kw.pos, "Expected 'vertex' or 'fragment' at line "
                                \o to_string(current(toks, kw.pos).line))
            ELSE LET afterOpen(shaderType, open) ==
                         IF open.error # "" THEN open
                         ELSE LET afterBody(body) ==
                                      IF body.error # "" THEN body
                                      ELSE LET closed(close) ==
                                                   IF close.error # "" THEN close
                                                   ELSE Parsed(body.node,
                                                               close.pos)
                                           IN closed(expect(toks, body.pos,
                                                  "RBRACE",
                                                  "Expected '}' at end of shader declaration"))
                              IN afterBody(parseShaderBody(toks, open.pos,
                                     ShaderDeclNode(shaderType, <<>>, <<>>,
                                                    <<>>)))
                 IN afterOpen(IF current(toks, kw.pos).type = "VERTEX"
                              THEN "vertex" ELSE "fragment",
                              expect(toks, advance(toks, kw.pos), "LBRACE",
                                     "Expected '{' after shader type"))
    IN afterKeyword(expect(toks, pos, "SHADER", "Expected 'shader' keyword"))

\* The while loop of Parser::parse; the node of the result is the Program.
RECURSIVE parseDeclarations(_, _, _)
parseDeclarations(toks, pos, declarations) ==
    IF current(toks, pos).type # "END_OF_FILE"
    THEN IF current(toks, pos).type = "SHADER"
         THEN LET again(decl) ==
                      IF decl.error # "" THEN decl
                      ELSE parseDeclarations(toks, decl.pos,
                                             Append(declarations, decl.node))
              IN again(parseShaderDecl(toks, pos))
         ELSE Thrown(pos, "Expected 'shader' declaration at line "
                          \o to_string(current(toks, pos).line))
    ELSE Parsed(ProgramNode(declarations), pos)

\* Parser::parse
parse(toks) == parseDeclarations(toks, 0, <<>>)

(***************************************************************************)
(* float, std::stof and operator<<(float)                                  *)
(*                                                                         *)
(* A float is modelled by the integer number of units of 1/FloatScale it   *)
(* holds (a decimal fixed-point value), for magnitudes below 1000.  On the *)
(* values that are exact in both binary32 and this format (the integers    *)
(* and the binary fractions with at most six decimals) the arithmetic is   *)
(* that of binary32; elsewhere it is the decimal rounding to six decimals. *)
(***************************************************************************)

FloatScale == 1000000

\* 10^n
RECURSIVE Pow10(_)
Pow10(n) == IF n = 0 THEN 1 ELSE 10 * Pow10(n - 1)

\* std::abs
Abs(v) == IF v < 0 THEN -v ELSE v

\* s.substr of the 1-based positions from..to ("" when empty).
Mid(s, from, to) == IF from > to THEN "" ELSE SubSeq(s, from, to)

DecimalDigits == {"0", "1", "2", "3", "4", "5", "6", "7", "8", "9"}

\* The length of the run of characters of the set chars in s from the 1-based
\* index i.
RECURSIVE RunLength(_, _, _)
RunLength(s, i, chars) ==
    IF i <= Len(s) /\ SubSeq(s, i, i) \in chars
    THEN 1 + RunLength(s, i + 1, chars) ELSE 0

\* The value of a run of at most nine decimal digits.
RECURSIVE DigitsValue(_)
DigitsValue(s) ==
    IF s = "" THEN 0
    ELSE 10 * DigitsValue(SubSeq(s, 1, Len(s) - 1))
         + DigitValue(SubSeq(s, Len(s), Len(s)))

\* The parts of a numeric lexeme: sign, integer digits without leading zeros,
\* fraction digits, decimal exponent.
NumberParts(lexeme) ==
    LET exponent(e0) ==
            IF CharAt(lexeme, e0 - 1) # "e" THEN 0
            ELSE IF CharAt(lexeme, e0) = "-"
            THEN -DigitsValue(Mid(lexeme, e0 + 2, Len(lexeme)))
            ELSE DigitsValue(Mid(lexeme, e0 + 2, Len(lexeme)))
        fraction(int, f0, nFrac) ==
            [neg |-> CharAt(lexeme, 0) = "-",
             int |-> int,
             frac |-> Mid(lexeme, f0, f0 + nFrac - 1),
             exp |-> exponent(f0 + nFrac)]
        integer(i0, nInt) ==
            LET dotted(hasDot) ==
                    LET from(f0) ==
                            fraction(Mid(lexeme,
                                         i0 + RunLength(lexeme, i0, {"0"}),
                                         i0 + nInt - 1),
                                     f0,
                                     IF hasDot
                                     THEN RunLength(lexeme, f0, DecimalDigits)
                                     ELSE 0)
                    IN from(i0 + nInt + (IF hasDot THEN 1 ELSE 0))
            IN dotted(CharAt(lexeme, i0 + nInt - 1) = ".")
        signed(i0) == integer(i0, RunLength(lexeme, i0, DecimalDigits))
    IN signed(IF CharAt(lexeme, 0) = "-" THEN 2 ELSE 1)

\* std::stof throws std::out_of_range when strtof reports ERANGE: the value
\* is above FLT_MAX (3.40282347e+38) or is non-zero and below FLT_MIN
\* (1.17549435e-38).  Lexemes with an exponent come from operator<< and are in
\* range.
stofThrows(lexeme) ==
    LET outOfRange(p, fracZeros) ==
            \/ Len(p.int) > 39
            \/ Len(p.int) = 39 /\ DigitsValue(SubSeq(p.int, 1, 9)) >= 340282357
            \/ p.int = "" /\ fracZeros < Len(p.frac) /\ fracZeros >= 38
        parts(p) == outOfRange(p, RunLength(p.frac, 1, {"0"}))
    IN parts(NumberParts(lexeme))

\* std::stof of a lexeme that does not throw: the value in units, the
\* decimals beyond the sixth dropped.
stof(lexeme) ==
    LET scaled(p, mant) ==
            (IF p.neg THEN -1 ELSE 1)
            * (IF p.exp >= 0 THEN mant * Pow10(p.exp)
               ELSE mant \div Pow10(-p.exp))
        value(p) ==
            scaled(p, DigitsValue(p.int) * FloatScale
                      + DigitsValue(SubSeq(p.frac \o "000000", 1, 6)))
    IN value(NumberParts(lexeme))

\* The decimal exponent of a positive value a in units: floor(log10(a / scale)).
Exponent10(a) ==
    IF a >= Pow10(9) THEN 3
    ELSE (CHOOSE k \in 0..8 : Pow10(k) <= a /\ a < Pow10(k + 1)) - 6

\* The decimal digits of n without trailing zeros ("" for 0).
RECURSIVE StripZeros(_)
StripZeros(s) ==
    IF s # "" /\ SubSeq(s, Len(s), Len(s)) = "0"
    THEN StripZeros(SubSeq(s, 1, Len(s) - 1)) ELSE s

\* n as exactly w decimal digits.
RECURSIVE Pad(_, _)
Pad(n, w) == IF w = 0 THEN "" ELSE Pad(n \div 10, w - 1) \o DigitChar(n % 10)

\* operator<<(std::ostream&, float) with the default precision 6 (printf %g):
\* six significant digits, trailing zeros removed, scientific notation when
\* the decimal exponent is below -4.
Render(v) ==
    LET sign == IF v < 0 THEN "-" ELSE ""
        point(digits) == IF digits = "" THEN "" ELSE "." \o digits
        fixed(r) ==
            sign \o to_string(r \div FloatScale)
                 \o point(StripZeros(Pad(r % FloatScale, 6)))
        rounded(a, unit) == ((a + unit \div 2) \div unit) * unit
        scientific(mant, X) ==
            sign \o SubSeq(mant, 1, 1) \o point(Mid(mant, 2, Len(mant)))
                 \o "e-0" \o to_string(-X)
        rendered(a, X) ==
            IF X >= -4
            THEN fixed(rounded(a, Pow10(IF X >= 0 THEN X + 1 ELSE 0)))
            ELSE scientific(StripZeros(to_string(a)), X)
    IN IF v = 0 THEN "0" ELSE rendered(Abs(v), Exponent10(Abs(v)))

\* float * float, rounded to the nearest unit.
FloatMul(a, b) ==
    LET sum(high, mid, low) ==
            high + mid \div 1000
            + ((mid % 1000) * 1000 + low + FloatScale \div 2) \div FloatScale
        product(x, y) ==
            sum((x \div 1000) * (y \div 1000),
                (x \div 1000) * (y % 1000) + (x % 1000) * (y \div 1000),
                (x % 1000) * (y % 1000))
    IN (IF (a < 0) # (b < 0) THEN -1 ELSE 1) * product(Abs(a), Abs(b))

\* The six decimals of r / y for r < y, by long division; the result has the
\* digits and the remainder.
RECURSIVE FracDigits(_, _, _)
FracDigits(r, y, n) ==
    IF n = 0 THEN [q |-> 0, r |-> r]
    ELSE LET prepend(d, rest) == [q |-> d * Pow10(n - 1) + rest.q, r |-> rest.r]
         IN prepend((r * 10) \div y, FracDigits((r * 10) % y, y, n - 1))

\* float / float for a divisor of magnitude below 200, rounded to the nearest
\* unit.
FloatDiv(a, b) ==
    LET quotient(x, y) ==
            LET nearest(f) ==
                    (x \div y) * FloatScale + f.q
                    + (IF 2 * f.r >= y THEN 1 ELSE 0)
            IN nearest(FracDigits(x % y, y, 6))
    IN (IF (a < 0) # (b < 0) THEN -1 ELSE 1) * quotient(Abs(a), Abs(b))

\* The tolerance 0.0001f of isLiteralValue and foldBinaryOp, in units.
Tolerance == 100

(***************************************************************************)
(* Optimizer (compiler/src/optimizer.cpp)                                  *)
(*                                                                         *)
(* A pass over a node returns the node as the pass leaves it, its return   *)
(* value `changed`, the increments of stats.constantsFolded and            *)
(* stats.algebraicSimplifications, and in `thrown` the type of the         *)
(* exception that escapes it ("" when it returns).                         *)
(***************************************************************************)

PassResult(node, changed, folded, simplified) ==
    [node |-> node, changed |-> changed, folded |-> folded,
     simplified |-> simplified, thrown |-> ""]

PassThrown(node, exception) ==
    [node |-> node, changed |-> FALSE, folded |-> 0, simplified |-> 0,
     thrown |-> exception]

\* Optimizer::isLiteral
isLiteral(node) == node.type = "LITERAL"

\* Whether Optimizer::getLiteralValue or isLiteralValue throws on a literal
\* node: std::stof is their only throwing call.
literalThrows(node) == stofThrows(node.value)

\* Optimizer::getLiteralValue of a literal node
getLiteralValue(node) == stof(node.value)

\* Optimizer::isLiteralValue where it does not throw; value is in units.
isLiteralValue(node, value) ==
    isLiteral(node) /\ Abs(getLiteralValue(node) - value) < Tolerance

\* foldBinaryOp folding no division.
foldBinaryOpWithoutDivision(op, left, right) ==
    CASE op = "+" -> LiteralNode(Render(left + right))
      [] op = "-" -> LiteralNode(Render(left - right))
      [] op = "*" -> LiteralNode(Render(FloatMul(left, right)))
      [] OTHER -> NullNode

\* Optimizer::foldBinaryOp
foldBinaryOp(op, left, right) ==
    CASE op = "+" -> LiteralNode(Render(left + right))
      [] op = "-" -> LiteralNode(Render(left - right))
      [] op = "*" -> LiteralNode(Render(FloatMul(left, right)))
      [] op = "/" -> IF Abs(right) < Tolerance THEN NullNode
                     ELSE LiteralNode(Render(FloatDiv(left, right)))
      [] OTHER -> NullNode

\* Optimizer::cloneNode
RECURSIVE cloneNode(_)
cloneNode(node) ==
    CASE node.type = "LITERAL" -> LiteralNode(node.value)
      [] node.type = "IDENTIFIER" -> IdentifierNode(node.name)
      [] node.type = "BINARY_OP" ->
            BinaryOpNode(node.op, cloneNode(node.left), cloneNode(node.right))
      [] node.type = "MEMBER_ACCESS" ->
            MemberAccessNode(cloneNode(node.object), node.member)
      [] node.type = "FUNCTION_CALL" ->
            FunctionCallNode(node.functionName,
                             [i \in 1..Len(node.arguments) |->
                                 cloneNode(node.arguments[i])])
      [] OTHER -> NullNode

\* foldLiterals reporting the fold and leaving the BinaryOp in place.
foldLiteralsKeepingNode(node) ==
    IF node.type = "BINARY_OP" /\ isLiteral(node.left) /\ isLiteral(node.right)
    THEN IF literalThrows(node.left) \/ literalThrows(node.right)
         THEN PassThrown(node, "std::out_of_range")
         ELSE LET replaced(folded) ==
                      IF folded # NullNode THEN PassResult(node, TRUE, 1, 0)
                      ELSE PassResult(node, FALSE, 0, 0)
              IN replaced(foldBinaryOp(node.op, getLiteralValue(node.left),
                                       getLiteralValue(node.right)))
    ELSE PassResult(node, FALSE, 0, 0)

\* The block of constantFoldingPass that follows the recursion, in its three
\* copies (ASSIGNMENT, BINARY_OP, FUNCTION_CALL argument): a BinaryOp of two
\* literals is replaced by the literal foldBinaryOp returns.  In the BINARY_OP
\* case the code retags the BinaryOpNode as LITERAL and writes the lexeme
\* through a LiteralNode pointer; `value` then occupies the storage of `op`,
\* and every later reader sees a literal.
foldLiterals(node) ==
    IF node.type = "BINARY_OP" /\ isLiteral(node.left) /\ isLiteral(node.right)
    THEN IF literalThrows(node.left) \/ literalThrows(node.right)
         THEN PassThrown(node, "std::out_of_range")
         ELSE LET replaced(folded) ==
                      IF folded # NullNode THEN PassResult(folded, TRUE, 1, 0)
                      ELSE PassResult(node, FALSE, 0, 0)
              IN replaced(foldBinaryOp(node.op, getLiteralValue(node.left),
                                       getLiteralValue(node.right)))
    ELSE PassResult(node, FALSE, 0, 0)

\* b after a, for pass results a and b of consecutive calls on parts of one
\* node; the node is the caller's to set.
Then(a, b, node) ==
    [node |-> node, changed |-> a.changed \/ b.changed,
     folded |-> a.folded + b.folded, simplified |-> a.simplified + b.simplified,
     thrown |-> b.thrown]

RECURSIVE constantFoldingPass(_)
RECURSIVE foldArguments(_, _, _)

\* Optimizer::constantFoldingPass
constantFoldingPass(node) ==
    CASE node.type = "ASSIGNMENT" ->
            LET assigned(v, f) == Then(v, f, [node EXCEPT !.value = f.node])
                value(v) ==
                    IF v.thrown # "" THEN PassThrown(node, v.thrown)
                    ELSE assigned(v, foldLiterals(v.node))
            IN value(constantFoldingPass(node.value))
      [] node.type = "BINARY_OP" ->
            LET replaced(lr, f) == Then(lr, f, f.node)
                operands(lr) == replaced(lr, foldLiterals(lr.node))
                right(l, r) ==
                    IF r.thrown # "" THEN PassThrown(node, r.thrown)
                    ELSE operands(Then(l, r, [node EXCEPT !.left = l.node,
                                                          !.right = r.node]))
                left(l) ==
                    IF l.thrown # "" THEN PassThrown(node, l.thrown)
                    ELSE right(l, constantFoldingPass(node.right))
            IN left(constantFoldingPass(node.left))
      [] node.type = "FUNCTION_CALL" ->
            LET arguments(a) ==
                    IF a.thrown # "" THEN PassThrown(node, a.thrown)
                    ELSE [a EXCEPT !.node = [node EXCEPT !.arguments = a.node]]
            IN arguments(foldArguments(node.arguments, 1,
                                       PassResult(<<>>, FALSE, 0, 0)))
      [] node.type = "MEMBER_ACCESS" ->
            LET object(o) ==
                    IF o.thrown # "" THEN PassThrown(node, o.thrown)
                    ELSE [o EXCEPT !.node = [node EXCEPT !.object = o.node]]
            IN object(constantFoldingPass(node.object))
      [] OTHER -> PassResult(node, FALSE, 0, 0)

\* The loop of the FUNCTION_CALL case over the arguments from the i-th; the
\* node of the result is the argument vector.
foldArguments(arguments, i, done) ==
    IF i > Len(arguments) THEN done
    ELSE LET replaced(a, f) ==
                 IF f.thrown # "" THEN PassThrown(done.node, f.thrown)
                 ELSE foldArguments(arguments, i + 1,
                          Then(done, Then(a, f, f.node),
                               Append(done.node, f.node)))
             argument(a) ==
                 IF a.thrown # "" THEN PassThrown(done.node, a.thrown)
                 ELSE replaced(a, foldLiterals(a.node))
         IN argument(constantFoldingPass(arguments[i]))

\* One of the four chain shapes of simplifyBinaryOp: inner is the BinaryOp
\* operand (x op c1), outerLiteral the literal operand; first and second are
\* the literals in the order the code reads them (c1, then c2).
combineChainWithoutOperator(op, inner, first, second) ==
    IF literalThrows(first) \/ literalThrows(second)
    THEN PassThrown(NullNode, "std::out_of_range")
    ELSE LET combined(c1, c2) == IF op = "*" THEN FloatMul(c1, c2) ELSE c1 + c2
         IN PassResult(BinaryOpNode("", cloneNode(inner.left),
                           LiteralNode(Render(combined(getLiteralValue(first),
                                                       getLiteralValue(second))))),
                       TRUE, 1, 1)

combineChain(op, inner, first, second) ==
    IF literalThrows(first) \/ literalThrows(second)
    THEN PassThrown(NullNode, "std::out_of_range")
    ELSE LET combined(c1, c2) == IF op = "*" THEN FloatMul(c1, c2) ELSE c1 + c2
         IN PassResult(BinaryOpNode(op, cloneNode(inner.left),
                           LiteralNode(Render(combined(getLiteralValue(first),
                                                       getLiteralValue(second))))),
                       TRUE, 1, 1)

\* The identity rules of simplifyBinaryOp, in the order the code tries them:
\* each is <<operator, operand tested, value in units, result>>.
IdentityRulesSubtractionSwapped ==
    << <<"*", "right", FloatScale, "left">>,
       <<"*", "left", FloatScale, "right">>,
       <<"*", "right", 0, "zero">>,
       <<"*", "left", 0, "zero">>,
       <<"+", "right", 0, "left">>,
       <<"+", "left", 0, "right">>,
       <<"-", "right", 0, "right">>,
       <<"/", "right", FloatScale, "left">> >>

IdentityRules ==
    << <<"*", "right", FloatScale, "left">>,
       <<"*", "left", FloatScale, "right">>,
       <<"*", "right", 0, "zero">>,
       <<"*", "left", 0, "zero">>,
       <<"+", "right", 0, "left">>,
       <<"+", "left", 0, "right">>,
       <<"-", "right", 0, "left">>,
       <<"/", "right", FloatScale, "left">> >>

\* The identity rules from the k-th on.  A rule of the node's operator calls
\* isLiteralValue on its operand, which throws when std::stof does.
RECURSIVE applyIdentities(_, _)
applyIdentities(node, k) ==
    IF k > Len(IdentityRules) THEN PassResult(NullNode, FALSE, 0, 0)
    ELSE LET apply(rule, tested) ==
                 IF node.op # rule[1] \/ ~isLiteral(tested)
                 THEN applyIdentities(node, k + 1)
                 ELSE IF literalThrows(tested)
                 THEN PassThrown(NullNode, "std::out_of_range")
                 ELSE IF isLiteralValue(tested, rule[3])
                 THEN PassResult(CASE rule[4] = "left" -> cloneNode(node.left)
                                   [] rule[4] = "right" -> cloneNode(node.right)
                                   [] OTHER -> LiteralNode("0.0"),
                                 TRUE, 0, 1)
                 ELSE applyIdentities(node, k + 1)
             operand(rule) ==
                 apply(rule, IF rule[2] = "right" THEN node.right ELSE node.left)
         IN operand(IdentityRules[k])

\* simplifyBinaryOp without the symmetric shapes c1 op (x op c2).
simplifyBinaryOpLeftChainsOnly(node) ==
    IF /\ node.op \in {"*", "+"}
       /\ isLiteral(node.right)
       /\ node.left.type = "BINARY_OP"
       /\ node.left.op = node.op
       /\ isLiteral(node.left.right)
    THEN combineChain(node.op, node.left, node.left.right, node.right)
    ELSE applyIdentities(node, 1)

\* Optimizer::simplifyBinaryOp: the node of the result is the new subtree, or
\* NullNode for "no simplification".
simplifyBinaryOp(node) ==
    IF /\ node.op \in {"*", "+"}
       /\ isLiteral(node.right)
       /\ node.left.type = "BINARY_OP"
       /\ node.left.op = node.op
       /\ isLiteral(node.left.right)
    THEN combineChain(node.op, node.left, node.left.right, node.right)
    ELSE IF /\ node.op \in {"*", "+"}
            /\ isLiteral(node.left)
            /\ node.right.type = "BINARY_OP"
            /\ node.right.op = node.op
            /\ isLiteral(node.right.right)
    THEN combineChain(node.op, node.right, node.left, node.right.right)
    ELSE applyIdentities(node, 1)

RECURSIVE algebraicSimplificationPass(_)
RECURSIVE simplifyArguments(_, _, _)

\* The code shared by the ASSIGNMENT and FUNCTION_CALL cases of
\* algebraicSimplificationPass for a slot (the assignment's value, an
\* argument): a BinaryOp has its operands simplified and is then replaced by
\* what simplifyBinaryOp returns; any other node is simplified recursively.
simplifySlot(slot) ==
    IF slot.type = "BINARY_OP"
    THEN LET replaced(lr, s) ==
                 Then(lr, s, IF s.node # NullNode THEN s.node ELSE lr.node)
             operands(lr) == replaced(lr, simplifyBinaryOp(lr.node))
             right(l, r) ==
                 IF r.thrown # "" THEN PassThrown(slot, r.thrown)
                 ELSE operands(Then(l, r, [slot EXCEPT !.left = l.node,
                                                       !.right = r.node]))
             left(l) ==
                 IF l.thrown # "" THEN PassThrown(slot, l.thrown)
                 ELSE right(l, algebraicSimplificationPass(slot.right))
         IN left(algebraicSimplificationPass(slot.left))
    ELSE algebraicSimplificationPass(slot)

\* Optimizer::algebraicSimplificationPass
algebraicSimplificationPass(node) ==
    CASE node.type = "ASSIGNMENT" ->
            LET value(v) ==
                    IF v.thrown # "" THEN PassThrown(node, v.thrown)
                    ELSE [v EXCEPT !.node = [node EXCEPT !.value = v.node]]
            IN value(simplifySlot(node.value))
      [] node.type = "BINARY_OP" ->
            LET right(l, r) ==
                    IF r.thrown # "" THEN PassThrown(node, r.thrown)
                    ELSE Then(l, r, [node EXCEPT !.left = l.node,
                                                 !.right = r.node])
                left(l) ==
                    IF l.thrown # "" THEN PassThrown(node, l.thrown)
                    ELSE right(l, algebraicSimplificationPass(node.right))
            IN left(algebraicSimplificationPass(node.left))
      [] node.type = "FUNCTION_CALL" ->
            LET arguments(a) ==
                    IF a.thrown # "" THEN PassThrown(node, a.thrown)
                    ELSE [a EXCEPT !.node = [node EXCEPT !.arguments = a.node]]
            IN arguments(simplifyArguments(node.arguments, 1,
                                           PassResult(<<>>, FALSE, 0, 0)))
      [] node.type = "MEMBER_ACCESS" ->
            LET object(o) ==
                    IF o.thrown # "" THEN PassThrown(node, o.thrown)
                    ELSE [o EXCEPT !.node = [node EXCEPT !.object = o.node]]
            IN object(algebraicSimplificationPass(node.object))
      [] OTHER -> PassResult(node, FALSE, 0, 0)

\* The loop of the FUNCTION_CALL case over the arguments from the i-th; the
\* node of the result is the argument vector.
simplifyArguments(arguments, i, done) ==
    IF i > Len(arguments) THEN done
    ELSE LET argument(a) ==
                 IF a.thrown # "" THEN PassThrown(done.node, a.thrown)
                 ELSE simplifyArguments(arguments, i + 1,
                          Then(done, a, Append(done.node, a.node)))
         IN argument(simplifySlot(arguments[i]))

\* collectUsedVariables as it would be without its FUNCTION_CALL case: the
\* arguments of a call are not searched.
RECURSIVE collectUsedVariablesSkippingCalls(_)
collectUsedVariablesSkippingCalls(node) ==
    CASE node.type = "IDENTIFIER" -> {node.name}
      [] node.type = "BINARY_OP" ->
            collectUsedVariablesSkippingCalls(node.left)
                \cup collectUsedVariablesSkippingCalls(node.right)
      [] node.type = "MEMBER_ACCESS" ->
            collectUsedVariablesSkippingCalls(node.object)
      [] node.type = "ASSIGNMENT" ->
            collectUsedVariablesSkippingCalls(node.value)
      [] OTHER -> {}

\* Optimizer::collectUsedVariables
RECURSIVE collectUsedVariables(_)
collectUsedVariables(node) ==
    CASE node.type = "IDENTIFIER" -> {node.name}
      [] node.type = "BINARY_OP" ->
            collectUsedVariables(node.left) \cup collectUsedVariables(node.right)
      [] node.type = "MEMBER_ACCESS" -> collectUsedVariables(node.object)
      [] node.type = "FUNCTION_CALL" ->
            UNION {collectUsedVariables(node.arguments[i]) :
                       i \in 1..Len(node.arguments)}
      [] node.type = "ASSIGNMENT" -> collectUsedVariables(node.value)
      [] OTHER -> {}

\* Optimizer::collectUsedVariablesInStatements
collectUsedVariablesInStatements(statements) ==
    UNION {collectUsedVariables(statements[i]) : i \in 1..Len(statements)}

\* The names of the VariableDecl nodes of an input or output list.
declaredNames(decls) ==
    {decls[i].name : i \in {j \in 1..Len(decls) : decls[j].type = "VARIABLE_DECL"}}

\* Optimizer::collectDeclaredVariables
collectDeclaredVariables(shader) ==
    declaredNames(shader.inputs) \cup declaredNames(shader.outputs)

\* The built-in output variables named in isOutputVariable.
BuiltinOutputs == {"gl_Position", "gl_FragColor", "gl_FragDepth"}

\* isOutputVariable as it would be without its last return statement: only
\* the declared outputs count.
isOutputVariableDeclaredOnly(varName, shader) ==
    varName \in declaredNames(shader.outputs)

\* Optimizer::isOutputVariable
isOutputVariable(varName, shader) ==
    varName \in declaredNames(shader.outputs) \/ varName \in BuiltinOutputs

\* The target variable name deadCodeEliminationPass computes for an
\* assignment: "" when the target is neither an Identifier nor a MemberAccess
\* of an Identifier.
targetName(assign) ==
    IF assign.target.type = "IDENTIFIER" THEN assign.target.name
    ELSE IF /\ assign.target.type = "MEMBER_ACCESS"
            /\ assign.target.object.type = "IDENTIFIER"
    THEN assign.target.object.name
    ELSE ""

\* shouldRemove as it would be if only a read or a built-in name kept an
\* assignment: a declared output that nothing reads is removed.
shouldRemoveUnreadOutputs(stmt, usedVars, shader) ==
    /\ stmt.type = "ASSIGNMENT"
    /\ targetName(stmt) # ""
    /\ targetName(stmt)
           \notin collectUsedVariablesInStatements(shader.statements)
    /\ targetName(stmt) \notin BuiltinOutputs

\* The shouldRemove of deadCodeEliminationPass for a statement, given the
\* usedVars computed before the removal loop.
shouldRemove(stmt, usedVars, shader) ==
    /\ stmt.type = "ASSIGNMENT"
    /\ targetName(stmt) # ""
    /\ targetName(stmt) \notin usedVars
    /\ ~isOutputVariable(targetName(stmt), shader)

\* usedVariables counting the target of an assignment as a use.
usedVariablesWithTargets(shader) ==
    collectUsedVariablesInStatements(shader.statements)
        \cup declaredNames(shader.outputs)
        \cup {targetName(shader.statements[i]) :
                  i \in 1..Len(shader.statements)}

\* The usedVars of deadCodeEliminationPass for a shader: the variables its
\* statements read and its declared outputs.
usedVariables(shader) ==
    collectUsedVariablesInStatements(shader.statements)
        \cup declaredNames(shader.outputs)

\* eliminateDeadCode removing by exchange with the end of the list: the
\* statements it keeps come out in the opposite order.
eliminateDeadCodeUnstable(shader) ==
    LET usedVars == usedVariables(shader)
        reversed(kept) == [i \in 1..Len(kept) |-> kept[Len(kept) + 1 - i]]
    IN IF \E i \in 1..Len(shader.statements) :
              shouldRemove(shader.statements[i], usedVars, shader)
       THEN [shader EXCEPT !.statements =
                reversed(SelectSeq(shader.statements,
                    LAMBDA stmt : ~shouldRemove(stmt, usedVars, shader)))]
       ELSE shader

\* The body of deadCodeEliminationPass for one ShaderDecl: the statements it
\* keeps, in order.
eliminateDeadCode(shader) ==
    LET usedVars == usedVariables(shader) IN
    [shader EXCEPT !.statements =
        SelectSeq(shader.statements,
                  LAMBDA stmt : ~shouldRemove(stmt, usedVars, shader))]

\* Optimizer::deadCodeEliminationPass: the program it leaves, its return
\* value and the increment of stats.deadCodeRemoved.
deadCodeEliminationPass(ast) ==
    LET count(p) == LET RECURSIVE sum(_)
                        sum(i) == IF i = 0 THEN 0
                                  ELSE Len(p.declarations[i].statements) + sum(i - 1)
                    IN sum(Len(p.declarations))
        result(after, removed) ==
            [ast |-> after, changed |-> removed > 0, removed |-> removed]
        passed(after) == result(after, count(ast) - count(after))
    IN passed([ast EXCEPT !.declarations =
                  [i \in 1..Len(ast.declarations) |->
                      IF ast.declarations[i].type = "SHADER_DECL"
                      THEN eliminateDeadCode(ast.declarations[i])
                      ELSE ast.declarations[i]]])

\* The statement loop of Optimizer::optimize for one ShaderDecl from the i-th
\* statement: constantFoldingPass, then algebraicSimplificationPass, on each.
\* The node of the result is the statement vector.
RECURSIVE optimizeStatements(_, _, _)
optimizeStatements(statements, i, done) ==
    IF i > Len(statements) THEN done
    ELSE LET simplified(f, a) ==
                 IF a.thrown # "" THEN PassThrown(done.node, a.thrown)
                 ELSE optimizeStatements(statements, i + 1,
                          Then(done, Then(f, a, a.node),
                               Append(done.node, a.node)))
             folded(f) ==
                 IF f.thrown # "" THEN PassThrown(done.node, f.thrown)
                 ELSE simplified(f, algebraicSimplificationPass(f.node))
         IN folded(constantFoldingPass(statements[i]))

(***************************************************************************)
(* Code generator (compiler/src/codegen.cpp)                               *)
(***************************************************************************)

\* CodeGenerator::mapType
mapType(type) == type

\* CodeGenerator::generateExpression: the GLSL text, or "" with `thrown` set
\* for a node type it does not support.
RECURSIVE generateExpression(_)
RECURSIVE generateArguments(_, _)
generateExpression(node) ==
    CASE node.type = "BINARY_OP" ->
            "(" \o generateExpression(node.left) \o " " \o node.op \o " "
                \o generateExpression(node.right) \o ")"
      [] node.type = "IDENTIFIER" -> node.name
      [] node.type = "LITERAL" -> node.value
      [] node.type = "MEMBER_ACCESS" ->
            generateExpression(node.object) \o "." \o node.member
      [] node.type = "FUNCTION_CALL" ->
            node.functionName \o "(" \o generateArguments(node.arguments, 1) \o ")"

\* The argument loop of generateExpression's FUNCTION_CALL case.
generateArguments(arguments, i) ==
    IF i > Len(arguments) THEN ""
    ELSE (IF i > 1 THEN ", " ELSE "") \o generateExpression(arguments[i])
             \o generateArguments(arguments, i + 1)

\* CodeGenerator::generateStatement (the parser puts only Assignments in a
\* statement list, so the default case is not reached).
generateStatement(node) ==
    generateExpression(node.target) \o " = " \o generateExpression(node.value)
        \o ";"

\* The loop of generateInputDeclarations and generateOutputDeclarations from
\* declaration i on: every VARIABLE_DECL takes the value of the counter as
\* its location and increments it.  The text, and the counter afterwards.
RECURSIVE generateDeclarations(_, _, _, _)
generateDeclarations(decls, qualifier, i, location) ==
    IF i > Len(decls) THEN [text |-> "", next |-> location]
    ELSE IF decls[i].type # "VARIABLE_DECL"
    THEN generateDeclarations(decls, qualifier, i + 1, location)
    ELSE LET line(rest) ==
                 [text |-> "layout(location = " \o to_string(location) \o ") "
                               \o qualifier \o " " \o mapType(decls[i].varType)
                               \o " " \o decls[i].name \o ";\n" \o rest.text,
                  next |-> rest.next]
         IN line(generateDeclarations(decls, qualifier, i + 1, location + 1))

\* CodeGenerator::generateInputDeclarations, from the value of
\* nextInputLocation: the text and nextInputLocation afterwards.
generateInputDeclarations(inputs, nextInputLocation) ==
    LET close(d) ==
            [text |-> d.text \o (IF inputs # <<>> THEN "\n" ELSE ""),
             next |-> d.next]
    IN close(generateDeclarations(inputs, "in", 1, nextInputLocation))

\* CodeGenerator::generateOutputDeclarations, from the value of
\* nextOutputLocation: the text and nextOutputLocation afterwards.
generateOutputDeclarations(outputs, nextOutputLocation) ==
    LET close(d) ==
            [text |-> d.text \o (IF outputs # <<>> THEN "\n" ELSE ""),
             next |-> d.next]
    IN close(generateDeclarations(outputs, "out", 1, nextOutputLocation))

\* The statement loop of generateMainFunction.
RECURSIVE generateStatements(_, _)
generateStatements(statements, i) ==
    IF i > Len(statements) THEN ""
    ELSE "    " \o generateStatement(statements[i]) \o "\n"
             \o generateStatements(statements, i + 1)

\* CodeGenerator::generateMainFunction
generateMainFunction(statements) ==
    "void main() {\n" \o generateStatements(statements, 1) \o "}\n"

\* CodeGenerator::nextInputLocation and nextOutputLocation.
Locations(nextInputLocation, nextOutputLocation) ==
    [nextInputLocation |-> nextInputLocation,
     nextOutputLocation |-> nextOutputLocation]

\* CodeGenerator::generateShaderDeclaration on a generator whose counters
\* are `locations`: the text and the counters afterwards.
generateShaderDeclaration(shader, locations) ==
    LET join(ins, outs) ==
            [glsl |-> ins.text \o outs.text
                          \o generateMainFunction(shader.statements),
             locations |-> Locations(ins.next, outs.next)]
    IN join(generateInputDeclarations(shader.inputs,
                                      locations.nextInputLocation),
            generateOutputDeclarations(shader.outputs,
                                       locations.nextOutputLocation))

\* The search as it would be if it took the first ShaderDecl whatever its
\* type when none has the requested one.
findTargetShaderOfAnyType(ast, type) ==
    LET matching == {i \in 1..Len(ast.declarations) :
                        /\ ast.declarations[i].type = "SHADER_DECL"
                        /\ ast.declarations[i].shaderType = type} IN
    IF matching = {} THEN (IF ast.declarations = <<>> THEN 0 ELSE 1)
    ELSE CHOOSE i \in matching : \A j \in matching : i <= j

\* The search of generateGLSL for the first ShaderDecl of the requested
\* type: its index in ast->declarations, 0 for targetShader == nullptr.
findTargetShader(ast, type) ==
    LET matching == {i \in 1..Len(ast.declarations) :
                        /\ ast.declarations[i].type = "SHADER_DECL"
                        /\ ast.declarations[i].shaderType = type} IN
    IF matching = {} THEN 0
    ELSE CHOOSE i \in matching : \A j \in matching : i <= j

\* generateGLSL as it would be without the reset of the location counters.
generateGLSLWithoutReset(ast, type, locations) ==
    LET emit(targetShader, reset) ==
            IF targetShader = 0
            THEN [glsl |-> "",
                  error |-> "No shader declaration found for type: " \o type,
                  locations |-> reset]
            ELSE LET done(g) ==
                         [glsl |-> "#version 450\n\n" \o g.glsl,
                          error |-> "", locations |-> g.locations]
                 IN done(generateShaderDeclaration(
                             ast.declarations[targetShader], reset))
    IN emit(findTargetShader(ast, type), locations)

\* CodeGenerator::generateGLSL on a generator whose counters are
\* `locations`: the counters are reset, then the text is built, or the
\* std::runtime_error with the message `error` is thrown.
generateGLSL(ast, type, locations) ==
    LET emit(targetShader, reset) ==
            IF targetShader = 0
            THEN [glsl |-> "",
                  error |-> "No shader declaration found for type: " \o type,
                  locations |-> reset]
            ELSE LET done(g) ==
                         [glsl |-> "#version 450\n\n" \o g.glsl,
                          error |-> "", locations |-> g.locations]
                 IN done(generateShaderDeclaration(
                             ast.declarations[targetShader], reset))
    IN emit(findTargetShader(ast, type), Locations(0, 0))

\* CodeGenerator::getFileExtension for the two types validateShaderType lets
\* through.
getFileExtension(type) == IF type = "vertex" THEN "vert" ELSE "frag"

\* getpid(): the one process all compilations of a run share.
Pid == 4242

\* The path CodeGenerator::generateTempFilePath builds from the value of
\* tempFileCounter it read.
generateTempFilePath(counter, extension) ==
    "/tmp/shader_" \o to_string(Pid) \o "_" \o to_string(counter) \o "."
        \o extension

\* CodeGenerator::fileExists, on a file system given as a function from the
\* existing paths to their contents.
fileExists(fs, filename) == filename \in DOMAIN fs

\* cleanupTempFile as it would be with its test inverted: std::remove is
\* called only for a file that does not exist, and removes nothing.
cleanupTempFileInverted(fs, filename) ==
    IF ~fileExists(fs, filename)
    THEN [f \in DOMAIN fs \ {filename} |-> fs[f]]
    ELSE fs

\* CodeGenerator::cleanupTempFile: the file system it leaves.
cleanupTempFile(fs, filename) ==
    IF fileExists(fs, filename)
    THEN [f \in DOMAIN fs \ {filename} |-> fs[f]]
    ELSE fs

\* The file system after `filename` is created or overwritten.
writeFile(fs, filename, content) ==
    [f \in DOMAIN fs \cup {filename} |->
        IF f = filename THEN content ELSE fs[f]]

\* The SPIR-V magic number readSPIRVFile compares the first word with.
SpirvMagic == 119734787

\* The 32-bit words of a byte sequence whose length is a multiple of 4, as a
\* little-endian machine reads them.
words(bytes) ==
    [i \in 1..(Len(bytes) \div 4) |->
        bytes[4 * i - 3] + 256 * bytes[4 * i - 2] + 65536 * bytes[4 * i - 1]
            + 16777216 * bytes[4 * i]]

\* CodeGenerator::readSPIRVFile on an existing file's bytes: the words, or
\* the message of the std::runtime_error it throws.
readSPIRVFile(bytes) ==
    IF Len(bytes) % 4 # 0
    THEN [spirv |-> <<>>,
          error |-> "Invalid SPIR-V file: size is not a multiple of 4 bytes"]
    ELSE LET buffer == words(bytes) IN
         IF buffer # <<>> /\ buffer[1] # SpirvMagic
         THEN [spirv |-> <<>>,
               error |-> "Invalid SPIR-V file: incorrect magic number"]
         ELSE [spirv |-> buffer, error |-> ""]

(***************************************************************************)
(* Driver (compiler/src/shader_compiler.cpp)                               *)
(***************************************************************************)

\* ShaderCompiler::isValidShaderType
isValidShaderType(type) == type = "vertex" \/ type = "fragment"

\* ShaderCompiler::countStatements
RECURSIVE countStatementsFrom(_, _)
countStatementsFrom(ast, i) ==
    IF i > Len(ast.declarations) THEN 0
    ELSE Len(ast.declarations[i].statements) + countStatementsFrom(ast, i + 1)

\* countStatements counting the statements of the first ShaderDecl only.
countStatementsOfFirst(ast) ==
    IF ast.declarations = <<>> THEN 0
    ELSE Len(ast.declarations[1].statements)

countStatements(ast) == countStatementsFrom(ast, 1)

\* The stage the catch block of ShaderCompiler::compile picks from the
\* message of the std::runtime_error it caught.
stageOfMessage(errorMsg) ==
    IF \/ Find(errorMsg, "Lexer")
       \/ Find(errorMsg, "token")
       \/ Find(errorMsg, "Unexpected character")
    THEN "LEXING"
    ELSE IF \/ Find(errorMsg, "Parse")
            \/ Find(errorMsg, "Expected")
            \/ Find(errorMsg, "syntax")
    THEN "PARSING"
    ELSE IF \/ Find(errorMsg, "Optimizer")
            \/ Find(errorMsg, "optimization")
    THEN "OPTIMIZATION"
    ELSE "CODE_GENERATION"

\* ShaderCompilationError::formatMessage
formatMessage(stage, message) ==
    "[" \o (CASE stage = "LEXING" -> "Lexing"
              [] stage = "PARSING" -> "Parsing"
              [] stage = "OPTIMIZATION" -> "Optimization"
              [] stage = "CODE_GENERATION" -> "Code Generation")
        \o " Error] " \o message

\* ShaderCompiler::countASTNodes: the countNode lambda on one node.
RECURSIVE countNode(_)
RECURSIVE countNodes(_, _)
countNode(node) ==
    1 + (CASE node.type = "SHADER_DECL" ->
                countNodes(node.inputs, 1) + countNodes(node.outputs, 1)
                    + countNodes(node.statements, 1)
           [] node.type = "ASSIGNMENT" ->
                countNode(node.target) + countNode(node.value)
           [] node.type = "BINARY_OP" ->
                countNode(node.left) + countNode(node.right)
           [] node.type = "MEMBER_ACCESS" -> countNode(node.object)
           [] node.type = "FUNCTION_CALL" -> countNodes(node.arguments, 1)
           [] OTHER -> 0)

countNodes(nodes, i) ==
    IF i > Len(nodes) THEN 0 ELSE countNode(nodes[i]) + countNodes(nodes, i + 1)

\* ShaderCompiler::countASTNodes
countASTNodes(ast) == 1 + countNodes(ast.declarations, 1)

(***************************************************************************)
(* Inputs                                                                  *)
(***************************************************************************)

\* The longest chain of dependent dead assignments, and of literals added to
\* one variable, among the sources compiled.
MaxChain == 12

\* The chains shorter than MaxChain by at most this are compiled too.
ChainSpread == 3

\* "a1 = x; a2 = a1; ... an = a(n-1); ": each assignment is read only by the
\* next one, the last by nothing.
RECURSIVE DeadAssignments(_)
DeadAssignments(n) ==
    IF n = 0 THEN ""
    ELSE DeadAssignments(n - 1) \o "a" \o to_string(n) \o " = "
             \o (IF n = 1 THEN "x" ELSE "a" \o to_string(n - 1)) \o "; "

DeadChain(n) ==
    "shader vertex { input vec3 x; main { " \o DeadAssignments(n)
        \o "gl_Position = vec4(x, 1.0); } }"

\* "x + 1.0 + 1.0 ... " with n literals.
RECURSIVE LiteralSum(_)
LiteralSum(n) == IF n = 0 THEN "x" ELSE LiteralSum(n - 1) \o " + 1.0"

LiteralChain(n) ==
    "shader fragment { input vec3 x; output vec3 c; main { c = "
        \o LiteralSum(n) \o "; } }"

ChainLengths == (MaxChain - ChainSpread)..MaxChain

ChainInputs ==
    {<<DeadChain(n), "vertex">> : n \in ChainLengths}
        \cup {<<LiteralChain(n), "fragment">> : n \in ChainLengths}

\* A number above the largest float: 41 digits.
HugeLiteral == "99999999999999999999999999999999999999999"

\* Programs of the language: the README's pair of shaders, folding and dead
\* code, the declared-but-unread output of scenario S3, member-access
\* targets, two vertex blocks, left-hand sides that are not variables, a
\* literal std::stof rejects, an identifier named like a stage marker.
ValidSources ==
    { "shader vertex { input vec3 position; output vec3 fragColor; "
          \o "main { fragColor = position * 1.0 + 0.0; "
          \o "gl_Position = vec4(position, 1.0); } } "
          \o "shader fragment { input vec3 fragColor; output vec4 outColor; "
          \o "main { outColor = vec4(fragColor, 1.0); } }",
      "shader fragment { output vec4 outColor; // folding\n"
          \o "main { tmp = 2.0 * 3.0; unusedv = tmp + 1.0; "
          \o "outColor = vec4(tmp, x * 0, 4.0 / 2.0, 1 / 0.00001); } }",
      "shader vertex { output vec3 unused; main { unused = vec3(1,0,0); "
          \o "dead = 1.0 + 2.0; gl_FragDepth = 0.5; } }",
      "shader vertex { input vec3 p; main { v.x = 2.0 * (p.y * 0.5); "
          \o "w.y = v.x; d.z = w.y; gl_Position.x = w.y; } }",
      "shader vertex { main { gl_Position = a; } } "
          \o "shader vertex { main { gl_Position = b; } }",
      "shader vertex { main { 1.0 = x; vec3(1) = y; (a + 1) = b; "
          \o "gl_Position = vec4(x, y, b, 1); } }",
      "shader vertex { main { gl_Position = vec4(x * " \o HugeLiteral
          \o ", 0, 0, 1); } }",
      "shader vertex { main { gl_Position = tokens; } }",
      "" }

\* Texts the lexer or the parser rejects.
InvalidSources ==
    { "shader vertex { main { x = 1.0 @ 2.0; } }",
      "shader vertex { x }",
      "shader vertex { main { x = ; } }",
      "shader vertex { main { x token = 1; } }",
      "shader vertex { main { x = 1 } }",
      "shader vertex { input 5; }",
      "shader compute { }",
      "vertex { }" }

\* The identities of the rewrite table on a variable, a product with a
\* literal, a sum with a literal, a literal, a call and a sum of variables;
\* every statement assigns to a built-in output.
IdentitySources ==
    { "shader vertex { main { gl_Position = y * 1; gl_Position = 1.0 * y; "
          \o "gl_Position = y + 0.0; gl_Position = 0 + y; "
          \o "gl_Position = y - 0; gl_Position = y / 1.0; "
          \o "gl_Position = y * 0; gl_Position = 0.0 * y; "
          \o "gl_Position = vec2(y, 1.5) * 1; gl_Position = (a + b) / 1; "
          \o "gl_Position = 0 + a.x; gl_Position = (a - b) * 0; } }",
      "shader vertex { main { gl_Position = y * 2.0 * 1; "
          \o "gl_Position = 1 * (y * 2.0); gl_Position = y + 2.0 + 0; "
          \o "gl_Position = 0 + (y + 2.0); gl_Position = y * 2.0 - 0; "
          \o "gl_Position = y * 2.0 * 0; gl_Position = 2.0 * 1; "
          \o "gl_Position = 2.0 - 0; gl_Position = 0 * 2.0; } }" }

\* Assignments of a BinaryOp of two literals to a built-in output; the sum
\* 100.53125 has eight significant digits and is a binary32 value.
FoldSources ==
    { "shader fragment { main { gl_FragDepth = 100.5 + 0.03125; "
          \o "gl_FragDepth = 1 + 2; gl_FragDepth = 7 / 2; "
          \o "gl_FragDepth = 0.5 * 0.25; gl_FragDepth = 3 - 4.5; } }" }

\* The dead-code example of the README, and the same main without the
\* declaration of `unused`.
ReadmeSources ==
    { "shader fragment { input vec3 color; output vec3 unused; "
          \o "output vec3 fragColor; "
          \o "main { unused = vec3(1.0, 0.0, 0.0); // Never read\n"
          \o "fragColor = color; } }",
      "shader fragment { input vec3 color; output vec3 fragColor; "
          \o "main { unused = vec3(1.0, 0.0, 0.0); // Never read\n"
          \o "fragColor = color; } }" }

\* Identities on an operand of a BinaryOp and inside a call's argument.
NestedSources ==
    { "shader vertex { main { gl_Position = a + b * 1; } }",
      "shader vertex { main { gl_Position = vec4(a * (b + 0), 1.0); } }" }

\* Programs for the passes of the optimizer: BinaryOps of two literals as an
\* operand, as an argument and inside an argument, next to divisions by a
\* literal below the tolerance; a dead assignment of a BinaryOp of two
\* literals in the second and in the first of two ShaderDecls; scenario S2
\* and other products and sums with two literals; a program every pass
\* changes, over three iterations.
OptimizerSources ==
    { "shader fragment { main { "
          \o "gl_FragColor = vec4((1 + 2) * x, x - 2 * 3, 4 / 0.00001, "
          \o "f(6 / 3, y * (8 / 0.00002))); "
          \o "gl_FragDepth = x + 1 / 0.00001; gl_FragDepth = 8 / 0.00001; "
          \o "gl_FragDepth = (1 + 2) * (3 + 4) - 0.5; } }",
      "shader vertex { input vec3 p; main { gl_Position = vec4(p, 1.0); } } "
          \o "shader fragment { output vec4 outColor; "
          \o "main { tmp = 1.0 * 2.0; outColor = vec4(1.0); } }",
      "shader fragment { output vec4 outColor; "
          \o "main { tmp = 1.0 * 2.0; outColor = vec4(1.0); } } "
          \o "shader vertex { input vec3 p; main { gl_Position = vec4(p, 1.0); } }",
      "shader fragment { input vec3 c; output vec4 outColor; "
          \o "main { outColor = vec4(c * 3.0 * 2.0 * 0.5, 1.0); } }",
      "shader fragment { input vec3 c; output vec4 outColor; "
          \o "main { outColor = 2.0 * (c * 4.0); outColor = c + 1.5 + 2.25; "
          \o "outColor = vec4(1.5 + (c + 2.5), f((c + 1) + 2) * 3 * 4, "
          \o "(c * 2 + 1) + 2, 2 * (3 * c)); "
          \o "outColor = f(c * 1 * 2) * 0 + g(c + 0 + 0); } }",
      "shader fragment { input vec3 c; output vec4 outColor; "
          \o "main { t1 = c * 1.0; t2 = t1; t3 = 2.0 * 3.0 + t2; "
          \o "outColor = vec4(c * 3.0 * 2.0 * 0.5, 1.0); } }" }

\* Expressions with operators of both precedences, rows of one precedence,
\* parentheses, calls and member accesses.
PrecedenceSources ==
    { "shader vertex { input vec3 a; main { gl_Position = a - b - c; "
          \o "gl_Position = a + b * c; gl_Position = (a + b) * c; "
          \o "gl_Position = a / b / c * d; gl_Position = ((a)); "
          \o "gl_Position = a * (b - (c - d)) - e / f + g; "
          \o "q.x = p.x * 2 - q.y / (r + 1.5); "
          \o "gl_Position = vec4(a - b * c, (a - b) * c, f(a + b, (c)) / 2, "
          \o "g() - 1 - h(a * b + c * d)); } }" }

ShaderTypes == {"vertex", "fragment"}

\* The calls compile(source, shaderType) of a run, with the setting of
\* setOptimizationEnabled before the call.
Inputs ==
    (ValidSources \X ShaderTypes \X BOOLEAN)
        \cup {<<c[1], c[2], TRUE>> : c \in ChainInputs}
        \cup (InvalidSources \X {"vertex"} \X {TRUE})
        \cup (IdentitySources \X {"vertex"} \X {TRUE})
        \cup (FoldSources \X {"fragment"} \X {TRUE})
        \cup (ReadmeSources \X {"fragment"} \X {TRUE})
        \cup (NestedSources \X {"vertex"} \X {TRUE})
        \cup (OptimizerSources \X {"fragment"} \X {TRUE})
        \cup (PrecedenceSources \X {"vertex"} \X BOOLEAN)
        \cup {<<"", "compute", TRUE>>, <<"", "", FALSE>>}

\* What one run of glslangValidator can do: the text it prints, the status
\* pclose returns, and whether it leaves a file at the output path, with
\* which bytes.
ValidSpirv == <<3, 2, 35, 7, 0, 0, 1, 0>>

TranslatorOutcome(status, output, written, bytes) ==
    [status |-> status, output |-> output, written |-> written,
     bytes |-> bytes]

TranslatorOutcomes ==
    {TranslatorOutcome(0, "", TRUE, b) :
        b \in {ValidSpirv, <<>>, <<3, 2, 35>>, <<1, 2, 3, 4>>}}
    \cup {TranslatorOutcome(0, "", FALSE, <<>>)}
    \cup {TranslatorOutcome(256, o, w, <<3, 2, 35>>) :
            o \in {"ERROR: 0:4: '' :  syntax error, unexpected IDENTIFIER\n",
                   "ERROR: 0:4: 'x' : undeclared identifier\n"},
            w \in BOOLEAN}

\* The outcomes two concurrent compilations are run against.
ConcurrentOutcomes ==
    {TranslatorOutcome(0, "", TRUE, ValidSpirv),
     TranslatorOutcome(0, "", FALSE, <<>>),
     TranslatorOutcome(256, "ERROR: 0:4: 'x' : undeclared identifier\n",
                       FALSE, <<>>)}

(***************************************************************************)
(* State                                                                   *)
(***************************************************************************)

\* The compilations of a run: each is one call of ShaderCompiler::compile on
\* a ShaderCompiler of its own, in a thread of its own.
Threads == {1, 2}

VARIABLES
    pc,                  \* where each compilation is
    source,              \* compile's argument source
    shaderType,          \* compile's argument shaderType
    optimizationEnabled, \* ShaderCompiler::optimizationEnabled
    lexer,               \* the cursor of compile's local lexer
    tokens,              \* the tokens lexer.tokenize has read
    ast,                 \* compile's local ast
    stats,               \* Optimizer::stats
    changed,             \* optimize's local changed
    declIdx,             \* optimize's position in ast->declarations
    run,                 \* which optimize call on the AST this is
    firstAst,            \* the AST the first optimize call returned
    compilerStats,       \* ShaderCompiler::stats
    generatedGLSL,       \* ShaderCompiler::generatedGLSL
    glslCode,            \* CodeGenerator::lastGeneratedGLSL
    locations,           \* CodeGenerator::nextInputLocation, nextOutputLocation
    inputFile,           \* compileGLSLToSPIRV's local inputFile
    outputFile,          \* compileGLSLToSPIRV's local outputFile
    counterRead,         \* the value of tempFileCounter a ++ has loaded
    cmdOutput,           \* compileGLSLToSPIRV's local output
    result,              \* compileGLSLToSPIRV's local result
    spirv,               \* the words compile returns
    exception,           \* the exception in flight or thrown to the caller
    tempFileCounter,     \* CodeGenerator::tempFileCounter, static
    files,               \* the file system: existing path -> content
    framebufferResized,  \* VulkanRenderer::framebufferResized
    lastResizeTime,      \* VulkanRenderer::lastResizeTime, in milliseconds
    resizeCount,         \* VulkanRenderer::resizeCount
    currentFrame,        \* VulkanRenderer::currentFrame
    time,                \* glfwGetTime(), in milliseconds
    windowExtent,        \* the framebuffer size of the window
    swapchainExtent,     \* the extent the swapchain was created with
    running              \* mainLoop is in its while loop

compilerVars ==
    <<pc, source, shaderType, optimizationEnabled, lexer, tokens, ast, stats,
      changed, declIdx, run, firstAst, compilerStats, generatedGLSL, glslCode,
      locations, inputFile, outputFile, counterRead, cmdOutput, result, spirv, exception,
      tempFileCounter, files>>

rendererVars ==
    <<framebufferResized, lastResizeTime, resizeCount, currentFrame, time,
      windowExtent, swapchainExtent, running>>

vars == <<compilerVars, rendererVars>>

driverVars ==
    <<source, shaderType, optimizationEnabled, lexer, tokens, compilerStats,
      generatedGLSL, spirv>>

optimizerVars == <<stats, changed, declIdx, run, firstAst>>

codegenVars ==
    <<glslCode, locations, inputFile, outputFile, counterRead, cmdOutput,
      result>>

sharedVars == <<tempFileCounter, files>>

\* Optimizer::maxPasses of optimize
maxPasses == 10

\* OptimizationStats as the Optimizer constructor leaves it.
FreshStats ==
    [constantsFolded |-> 0, deadCodeRemoved |-> 0,
     algebraicSimplifications |-> 0, totalPasses |-> 0]

\* CompilationStats as resetStats leaves it (the counters; the timings are
\* not modelled).
FreshCompilationStats ==
    [tokenCount |-> 0, astNodeCount |-> 0, originalStatementCount |-> 0,
     optimizedStatementCount |-> 0, constantsFolded |-> 0,
     deadCodeEliminated |-> 0, algebraicSimplifications |-> 0,
     optimizationPasses |-> 0, spirvSizeBytes |-> 0,
     spirvInstructionCount |-> 0]

NoException == [type |-> "", what |-> "", origin |-> "", stage |-> ""]

\* An exception of the given C++ type thrown by code of the class `origin`.
Exception(type, what, origin) ==
    [type |-> type, what |-> what, origin |-> origin, stage |-> ""]

\* The empty file system.
NoFiles == [f \in {} |-> ""]

\* The members of VulkanRenderer as their initializers leave them; no window
\* is open.
RendererConstructed ==
    /\ framebufferResized = FALSE
    /\ lastResizeTime = 0
    /\ resizeCount = 0
    /\ currentFrame = 0
    /\ time = 0
    /\ windowExtent = 1
    /\ swapchainExtent = 1
    /\ running = FALSE

\* A compilation before compile is called (or a thread that makes no call).
InitCommon ==
    /\ lexer = [t \in Threads |-> LexerStart]
    /\ tokens = [t \in Threads |-> <<>>]
    /\ ast = [t \in Threads |-> NullNode]
    /\ stats = [t \in Threads |-> FreshStats]
    /\ changed = [t \in Threads |-> TRUE]
    /\ declIdx = [t \in Threads |-> 0]
    /\ run = [t \in Threads |-> 0]
    /\ firstAst = [t \in Threads |-> NullNode]
    /\ compilerStats = [t \in Threads |-> FreshCompilationStats]
    /\ generatedGLSL = [t \in Threads |-> ""]
    /\ glslCode = [t \in Threads |-> ""]
    /\ locations = [t \in Threads |-> Locations(0, 0)]
    /\ inputFile = [t \in Threads |-> ""]
    /\ outputFile = [t \in Threads |-> ""]
    /\ counterRead = [t \in Threads |-> 0]
    /\ cmdOutput = [t \in Threads |-> ""]
    /\ result = [t \in Threads |-> 0]
    /\ spirv = [t \in Threads |-> <<>>]
    /\ exception = [t \in Threads |-> NoException]
    /\ tempFileCounter = 0
    /\ files = NoFiles

\* One thread calls compile(source, shaderType); the other makes no call.
Init ==
    /\ \E call \in Inputs :
          /\ source = [t \in Threads |-> IF t = 1 THEN call[1] ELSE ""]
          /\ shaderType = [t \in Threads |-> IF t = 1 THEN call[2] ELSE ""]
          /\ optimizationEnabled =
                 [t \in Threads |-> IF t = 1 THEN call[3] ELSE TRUE]
    /\ pc = [t \in Threads |-> IF t = 1 THEN "compile" ELSE "idle"]
    /\ InitCommon
    /\ RendererConstructed

(***************************************************************************)
(* ShaderCompiler::compile                                                 *)
(***************************************************************************)

\* f with the value of thread self replaced.
Set(f, self, v) == [f EXCEPT ![self] = v]

\* Entry of compile: resetStats and validateShaderType.  The exception of
\* validateShaderType is thrown before the try block and leaves compile as
\* it is.
Compile(self) ==
    /\ pc[self] = "compile"
    /\ compilerStats' = Set(compilerStats, self, FreshCompilationStats)
    /\ generatedGLSL' = Set(generatedGLSL, self, "")
    /\ IF isValidShaderType(shaderType[self])
       THEN /\ pc' = Set(pc, self, "lex")
            /\ UNCHANGED exception
       ELSE /\ pc' = Set(pc, self, "thrown")
            /\ exception' = Set(exception, self,
                   Exception("std::runtime_error",
                             "Invalid shader type: '" \o shaderType[self]
                                 \o "'. Must be 'vertex' or 'fragment'.",
                             "ShaderCompiler"))
    /\ UNCHANGED <<source, shaderType, optimizationEnabled, lexer, tokens, spirv, ast,
                   optimizerVars, codegenVars, sharedVars>>
    /\ UNCHANGED rendererVars

\* Phase 1: one step of Lexer::tokenize.
Lex(self) ==
    /\ pc[self] = "lex"
    /\ \E step \in {tokenizeStep(source[self], lexer[self], tokens[self])} :
       /\ lexer' = Set(lexer, self, step.lexer)
       /\ tokens' = Set(tokens, self, step.tokens)
       /\ IF step.error # ""
          THEN /\ exception' = Set(exception, self,
                      Exception("std::runtime_error", step.error, "Lexer"))
               /\ pc' = Set(pc, self, "catch")
               /\ UNCHANGED compilerStats
          ELSE /\ compilerStats' = Set(compilerStats, self,
                      [compilerStats[self] EXCEPT
                          !.tokenCount = IF step.done THEN Len(step.tokens)
                                         ELSE @])
               /\ pc' = Set(pc, self, IF step.done THEN "parse" ELSE "lex")
               /\ UNCHANGED exception
    /\ UNCHANGED <<source, shaderType, optimizationEnabled, generatedGLSL,
                   spirv, ast, optimizerVars, codegenVars, sharedVars>>
    /\ UNCHANGED rendererVars

\* Phase 2: Parser::parse, and the branch on optimizationEnabled that
\* follows it; the Optimizer is constructed when the branch is taken.
Parse(self) ==
    /\ pc[self] = "parse"
    /\ \E parsed \in {parse(tokens[self])} :
       IF parsed.error # ""
       THEN /\ exception' = Set(exception, self,
                   Exception("std::runtime_error", parsed.error, "Parser"))
            /\ pc' = Set(pc, self, "catch")
            /\ UNCHANGED <<ast, compilerStats, run>>
       ELSE /\ ast' = Set(ast, self, parsed.node)
            /\ compilerStats' = Set(compilerStats, self,
                   [compilerStats[self] EXCEPT
                       !.astNodeCount = countASTNodes(parsed.node),
                       !.originalStatementCount = countStatements(parsed.node),
                       !.optimizedStatementCount =
                           IF optimizationEnabled[self] THEN @
                           ELSE countStatements(parsed.node)])
            /\ pc' = Set(pc, self, IF optimizationEnabled[self]
                                   THEN "optimize" ELSE "generate")
            /\ run' = Set(run, self, IF optimizationEnabled[self] THEN 1 ELSE 0)
            /\ UNCHANGED exception
    /\ UNCHANGED <<source, shaderType, optimizationEnabled, lexer, tokens,
                   generatedGLSL, spirv, stats, changed, declIdx, firstAst,
                   codegenVars, sharedVars>>
    /\ UNCHANGED rendererVars

(***************************************************************************)
(* Optimizer::optimize                                                     *)
(***************************************************************************)

\* The test of the while loop, and the start of an iteration or the return.
OptimizeLoop(self) ==
    /\ pc[self] = "optimize"
    /\ IF changed[self] /\ stats[self].totalPasses < maxPasses
       THEN /\ changed' = Set(changed, self, FALSE)
            /\ stats' = Set(stats, self,
                   [stats[self] EXCEPT !.totalPasses = @ + 1])
            /\ declIdx' = Set(declIdx, self, 1)
            /\ pc' = Set(pc, self, IF ast[self].declarations = <<>>
                                   THEN "optimize" ELSE "statements")
       ELSE /\ pc' = Set(pc, self, "optimized")
            /\ UNCHANGED <<changed, stats, declIdx>>
    /\ UNCHANGED <<driverVars, ast, run, firstAst, codegenVars, exception,
                   sharedVars>>
    /\ UNCHANGED rendererVars

\* The statement loop over one ShaderDecl: constantFoldingPass and
\* algebraicSimplificationPass on every statement.  An exception leaves
\* through optimize; the Optimizer and the AST are locals of compile's try
\* block and are destroyed on the way.
OptimizeStatements(self) ==
    /\ pc[self] = "statements"
    /\ \E passed \in {optimizeStatements(
                           ast[self].declarations[declIdx[self]].statements, 1,
                           PassResult(<<>>, FALSE, 0, 0))} :
       IF passed.thrown # ""
       THEN /\ exception' = Set(exception, self,
                   Exception(passed.thrown, "stof", "Optimizer"))
            /\ pc' = Set(pc, self, "catch")
            /\ UNCHANGED <<ast, stats, changed>>
       ELSE /\ ast' = Set(ast, self,
                   [ast[self] EXCEPT
                       !.declarations[declIdx[self]].statements = passed.node])
            /\ stats' = Set(stats, self,
                   [stats[self] EXCEPT
                       !.constantsFolded = @ + passed.folded,
                       !.algebraicSimplifications = @ + passed.simplified])
            /\ changed' = Set(changed, self, changed[self] \/ passed.changed)
            /\ pc' = Set(pc, self, "dce")
            /\ UNCHANGED exception
    /\ UNCHANGED <<driverVars, declIdx, run, firstAst, codegenVars, sharedVars>>
    /\ UNCHANGED rendererVars

\* The call of deadCodeEliminationPass(ast) that ends the body of the loop
\* over the declarations, and the step of that loop.
EliminateDeadCode(self) ==
    /\ pc[self] = "dce"
    /\ \E dead \in {deadCodeEliminationPass(ast[self])} :
       /\ ast' = Set(ast, self, dead.ast)
       /\ stats' = Set(stats, self,
              [stats[self] EXCEPT !.deadCodeRemoved = @ + dead.removed])
       /\ changed' = Set(changed, self, changed[self] \/ dead.changed)
    /\ declIdx' = Set(declIdx, self, declIdx[self] + 1)
    /\ pc' = Set(pc, self, IF declIdx[self] < Len(ast[self].declarations)
                           THEN "statements" ELSE "optimize")
    /\ UNCHANGED <<driverVars, run, firstAst, codegenVars, exception,
                   sharedVars>>
    /\ UNCHANGED rendererVars

\* Back in compile after optimize returned: the statistics are collected.
CollectStatistics(self) ==
    /\ pc[self] = "optimized"
    /\ compilerStats' = Set(compilerStats, self,
           [compilerStats[self] EXCEPT
               !.constantsFolded = stats[self].constantsFolded,
               !.deadCodeEliminated = stats[self].deadCodeRemoved,
               !.algebraicSimplifications = stats[self].algebraicSimplifications,
               !.optimizationPasses = stats[self].totalPasses,
               !.optimizedStatementCount = countStatements(ast[self])])
    /\ pc' = Set(pc, self, "generate")
    /\ UNCHANGED <<source, shaderType, optimizationEnabled, lexer, tokens,
                   generatedGLSL, spirv, ast, optimizerVars, codegenVars,
                   exception, sharedVars>>
    /\ UNCHANGED rendererVars

(***************************************************************************)
(* CodeGenerator::generate and compileGLSLToSPIRV                          *)
(***************************************************************************)

\* Phase 4, step 1: generateGLSL.
GenerateGLSL(self) ==
    /\ pc[self] = "generate"
    /\ \E generated \in {generateGLSL(ast[self], shaderType[self],
                                       locations[self])} :
       /\ locations' = Set(locations, self, generated.locations)
       /\ IF generated.error # ""
          THEN /\ exception' = Set(exception, self,
                      Exception("std::runtime_error", generated.error,
                                "CodeGenerator"))
               /\ pc' = Set(pc, self, "catch")
               /\ UNCHANGED glslCode
          ELSE /\ glslCode' = Set(glslCode, self, generated.glsl)
               /\ pc' = Set(pc, self, "inputPath")
               /\ UNCHANGED exception
    /\ UNCHANGED <<driverVars, ast, optimizerVars, inputFile, outputFile,
                   counterRead, cmdOutput, result, sharedVars>>
    /\ UNCHANGED rendererVars

\* tempFileCounter++ is a load followed by a store on a plain static int:
\* this is the load, of either call of generateTempFilePath.
LoadCounter(self) ==
    /\ pc[self] \in {"inputPath", "outputPath"}
    /\ counterRead' = Set(counterRead, self, tempFileCounter)
    /\ pc' = Set(pc, self, IF pc[self] = "inputPath" THEN "inputPathStore"
                           ELSE "outputPathStore")
    /\ UNCHANGED <<driverVars, ast, optimizerVars, glslCode, locations,
                   inputFile, outputFile, cmdOutput, result, exception,
                   sharedVars>>
    /\ UNCHANGED rendererVars

\* The store of tempFileCounter++ and the path built from the value loaded.
StoreCounter(self) ==
    /\ pc[self] \in {"inputPathStore", "outputPathStore"}
    /\ tempFileCounter' = counterRead[self] + 1
    /\ IF pc[self] = "inputPathStore"
       THEN /\ inputFile' = Set(inputFile, self,
                   generateTempFilePath(counterRead[self],
                                        getFileExtension(shaderType[self])))
            /\ pc' = Set(pc, self, "outputPath")
            /\ UNCHANGED outputFile
       ELSE /\ outputFile' = Set(outputFile, self,
                   generateTempFilePath(counterRead[self], "spv"))
            /\ pc' = Set(pc, self, "write")
            /\ UNCHANGED inputFile
    /\ UNCHANGED <<driverVars, ast, optimizerVars, glslCode, locations,
                   counterRead, cmdOutput, result, exception, files>>
    /\ UNCHANGED rendererVars

\* Step 1 of compileGLSLToSPIRV: the GLSL is written to inputFile, or the
\* file cannot be created.
WriteGLSL(self) ==
    /\ pc[self] = "write"
    /\ \E opened \in BOOLEAN :
          IF opened
          THEN /\ files' = writeFile(files, inputFile[self], glslCode[self])
               /\ pc' = Set(pc, self, "popen")
               /\ UNCHANGED exception
          ELSE /\ exception' = Set(exception, self,
                      Exception("std::runtime_error",
                                "Failed to create temporary GLSL file: "
                                    \o inputFile[self],
                                "CodeGenerator"))
               /\ pc' = Set(pc, self, "cleanup")
               /\ UNCHANGED files
    /\ UNCHANGED <<driverVars, ast, optimizerVars, codegenVars,
                   tempFileCounter>>
    /\ UNCHANGED rendererVars

\* Steps 2 and 3: popen fails, or glslangValidator runs to its end: its
\* output is captured and pclose returns its status.
RunTranslator(self, outcomes) ==
    /\ pc[self] = "popen"
    /\ \/ /\ exception' = Set(exception, self,
                 Exception("std::runtime_error",
                           "Failed to execute glslangValidator",
                           "CodeGenerator"))
          /\ pc' = Set(pc, self, "cleanup")
          /\ UNCHANGED <<files, cmdOutput, result>>
       \/ \E outcome \in outcomes :
             /\ files' = IF outcome.written
                         THEN writeFile(files, outputFile[self], outcome.bytes)
                         ELSE files
             /\ cmdOutput' = Set(cmdOutput, self, outcome.output)
             /\ result' = Set(result, self, outcome.status)
             /\ pc' = Set(pc, self, "result")
             /\ UNCHANGED exception
    /\ UNCHANGED <<driverVars, ast, optimizerVars, glslCode, locations,
                   inputFile, outputFile, counterRead, tempFileCounter>>
    /\ UNCHANGED rendererVars

\* The command line compileGLSLToSPIRV builds.
command(self) ==
    "glslangValidator -V " \o inputFile[self] \o " -o " \o outputFile[self]
        \o " 2>&1"

\* The test of the translator's status, with the cleanup and the throw of a
\* non-zero status.
CheckResult(self) ==
    /\ pc[self] = "result"
    /\ IF result[self] # 0
       THEN /\ files' = cleanupTempFile(cleanupTempFile(files, inputFile[self]),
                                        outputFile[self])
            /\ exception' = Set(exception, self,
                   Exception("std::runtime_error",
                             "GLSL compilation failed!\n"
                                 \o "Command: " \o command(self) \o "\n"
                                 \o "Output: " \o cmdOutput[self] \o "\n"
                                 \o "Generated GLSL:\n" \o glslCode[self],
                             "CodeGenerator"))
            /\ pc' = Set(pc, self, "cleanup")
       ELSE /\ pc' = Set(pc, self, "exists")
            /\ UNCHANGED <<files, exception>>
    /\ UNCHANGED <<driverVars, ast, optimizerVars, codegenVars,
                   tempFileCounter>>
    /\ UNCHANGED rendererVars

\* Step 4, the test fileExists(outputFile).
CheckOutput(self) ==
    /\ pc[self] = "exists"
    /\ IF ~fileExists(files, outputFile[self])
       THEN /\ files' = cleanupTempFile(files, inputFile[self])
            /\ exception' = Set(exception, self,
                   Exception("std::runtime_error",
                             "SPIR-V output file was not created: "
                                 \o outputFile[self],
                             "CodeGenerator"))
            /\ pc' = Set(pc, self, "cleanup")
       ELSE /\ pc' = Set(pc, self, "read")
            /\ UNCHANGED <<files, exception>>
    /\ UNCHANGED <<driverVars, ast, optimizerVars, codegenVars,
                   tempFileCounter>>
    /\ UNCHANGED rendererVars

\* Step 4, readSPIRVFile(outputFile).
ReadSPIRV(self) ==
    /\ pc[self] = "read"
    /\ IF ~fileExists(files, outputFile[self])
       THEN /\ exception' = Set(exception, self,
                   Exception("std::runtime_error",
                             "Failed to open SPIR-V file: " \o outputFile[self],
                             "CodeGenerator"))
            /\ pc' = Set(pc, self, "cleanup")
            /\ UNCHANGED spirv
       ELSE \E file \in {readSPIRVFile(files[outputFile[self]])} :
            IF file.error # ""
            THEN /\ exception' = Set(exception, self,
                        Exception("std::runtime_error", file.error,
                                  "CodeGenerator"))
                 /\ pc' = Set(pc, self, "cleanup")
                 /\ UNCHANGED spirv
            ELSE /\ spirv' = Set(spirv, self, file.spirv)
                 /\ pc' = Set(pc, self, "cleanup")
                 /\ UNCHANGED exception
    /\ UNCHANGED <<source, shaderType, optimizationEnabled, lexer, tokens,
                   compilerStats, generatedGLSL, ast, optimizerVars,
                   codegenVars, sharedVars>>
    /\ UNCHANGED rendererVars

\* Step 5 and the handler catch (...): both temporary files are cleaned up,
\* and compileGLSLToSPIRV returns to compile, which records the GLSL and the
\* size of the SPIR-V and returns, or rethrows.
Cleanup(self) ==
    /\ pc[self] = "cleanup"
    /\ files' = cleanupTempFile(cleanupTempFile(files, inputFile[self]),
                                outputFile[self])
    /\ IF exception[self] # NoException
       THEN /\ pc' = Set(pc, self, "catch")
            /\ UNCHANGED <<compilerStats, generatedGLSL>>
       ELSE /\ generatedGLSL' = Set(generatedGLSL, self, glslCode[self])
            /\ compilerStats' = Set(compilerStats, self,
                   [compilerStats[self] EXCEPT
                       !.spirvSizeBytes = 4 * Len(spirv[self]),
                       !.spirvInstructionCount = Len(spirv[self])])
            /\ pc' = Set(pc, self, "returned")
    /\ UNCHANGED <<source, shaderType, optimizationEnabled, lexer, tokens, spirv, ast,
                   optimizerVars, codegenVars, exception, tempFileCounter>>
    /\ UNCHANGED rendererVars

\* The handler of compile's try block.  It catches std::runtime_error and
\* what derives from it, and throws a ShaderCompilationError of the stage it
\* reads off the message; any other exception passes through it.
Catch(self) ==
    /\ pc[self] = "catch"
    /\ \E stage \in {stageOfMessage(exception[self].what)} :
          exception' = Set(exception, self,
              IF exception[self].type = "std::runtime_error"
              THEN [type |-> "ShaderCompilationError",
                    what |-> formatMessage(stage, exception[self].what),
                    origin |-> exception[self].origin,
                    stage |-> stage]
              ELSE exception[self])
    /\ pc' = Set(pc, self, "thrown")
    /\ UNCHANGED <<driverVars, ast, optimizerVars, codegenVars, sharedVars>>
    /\ UNCHANGED rendererVars

\* A second Optimizer is constructed and run on the AST the first optimize
\* call returned.
OptimizeAgain(self) ==
    /\ pc[self] = "optimized"
    /\ run[self] = 1
    /\ firstAst' = Set(firstAst, self, ast[self])
    /\ run' = Set(run, self, 2)
    /\ stats' = Set(stats, self, FreshStats)
    /\ changed' = Set(changed, self, TRUE)
    /\ pc' = Set(pc, self, "optimize")
    /\ UNCHANGED <<driverVars, ast, declIdx, codegenVars, exception,
                   sharedVars>>
    /\ UNCHANGED rendererVars

\* The calls of generate made on one CodeGenerator.
MaxGenerateCalls == 2

\* CodeGenerator::generate called once more on the same CodeGenerator, with
\* the same AST and a shaderType of the caller's choice, after the call
\* before it returned or threw: the locals of the call start afresh, the
\* members (lastGeneratedGLSL, the location counters) are as the last call
\* left them.
GenerateAgain(self) ==
    /\ pc[self] \in {"returned", "thrown"}
    /\ ast[self].type = "PROGRAM"
    /\ exception[self].origin \in {"", "CodeGenerator"}
    /\ tempFileCounter < 2 * MaxGenerateCalls
    /\ \E type \in ShaderTypes : shaderType' = Set(shaderType, self, type)
    /\ pc' = Set(pc, self, "generate")
    /\ exception' = Set(exception, self, NoException)
    /\ inputFile' = Set(inputFile, self, "")
    /\ outputFile' = Set(outputFile, self, "")
    /\ counterRead' = Set(counterRead, self, 0)
    /\ cmdOutput' = Set(cmdOutput, self, "")
    /\ result' = Set(result, self, 0)
    /\ spirv' = Set(spirv, self, <<>>)
    /\ UNCHANGED <<source, optimizationEnabled, lexer, tokens, compilerStats,
                   generatedGLSL, ast, optimizerVars, glslCode, locations,
                   sharedVars>>
    /\ UNCHANGED rendererVars

(***************************************************************************)
(* Specifications                                                          *)
(***************************************************************************)

\* One compilation, start to end.
Next ==
    \E self \in {1} :
        \/ Compile(self)
        \/ Lex(self)
        \/ Parse(self)
        \/ OptimizeLoop(self)
        \/ OptimizeStatements(self)
        \/ EliminateDeadCode(self)
        \/ CollectStatistics(self)
        \/ GenerateGLSL(self)
        \/ LoadCounter(self)
        \/ StoreCounter(self)
        \/ WriteGLSL(self)
        \/ RunTranslator(self, TranslatorOutcomes)
        \/ CheckResult(self)
        \/ CheckOutput(self)
        \/ ReadSPIRV(self)
        \/ Cleanup(self)
        \/ Catch(self)

Spec == Init /\ [][Next]_vars

\* The front end and the optimizer, run twice on each program: the calls
\* with optimization enabled.
InitOptimize ==
    /\ Init
    /\ optimizationEnabled[1]
    /\ isValidShaderType(shaderType[1])

NextOptimize ==
    \E self \in {1} :
        \/ Compile(self)
        \/ Lex(self)
        \/ Parse(self)
        \/ OptimizeLoop(self)
        \/ OptimizeStatements(self)
        \/ EliminateDeadCode(self)
        \/ OptimizeAgain(self)
        \/ Catch(self)

SpecOptimize == InitOptimize /\ [][NextOptimize]_vars

\* Two threads of one process, each compiling on a ShaderCompiler of its
\* own with optimization disabled.
ConcurrentSources ==
    [vertex |-> "shader vertex{main{gl_Position=a;}}",
     fragment |-> "shader fragment{main{gl_FragColor=b;}}"]

InitConcurrent ==
    /\ \E second \in ShaderTypes :
          /\ shaderType = [t \in Threads |-> IF t = 1 THEN "vertex" ELSE second]
          /\ source = [t \in Threads |->
                          IF t = 1 THEN ConcurrentSources.vertex
                          ELSE ConcurrentSources[second]]
    /\ optimizationEnabled = [t \in Threads |-> FALSE]
    /\ pc = [t \in Threads |-> "compile"]
    /\ InitCommon
    /\ RendererConstructed

NextConcurrent ==
    \E self \in Threads :
        \/ Compile(self)
        \/ Lex(self)
        \/ Parse(self)
        \/ GenerateGLSL(self)
        \/ LoadCounter(self)
        \/ StoreCounter(self)
        \/ WriteGLSL(self)
        \/ RunTranslator(self, ConcurrentOutcomes)
        \/ CheckResult(self)
        \/ CheckOutput(self)
        \/ ReadSPIRV(self)
        \/ Cleanup(self)
        \/ Catch(self)

SpecConcurrent == InitConcurrent /\ [][NextConcurrent]_vars

\* Programs with several inputs and outputs per stage, one of them without
\* a fragment stage.
LocationSources ==
    { "shader vertex { input vec3 position; input vec3 normal; "
          \o "input vec2 uv; output vec3 fragColor; output vec2 fragUV; "
          \o "main { fragColor = normal; fragUV = uv; "
          \o "gl_Position = vec4(position, 1.0); } } "
          \o "shader fragment { input vec3 fragColor; input vec2 fragUV; "
          \o "output vec4 outColor; "
          \o "main { outColor = vec4(fragColor, 1.0); } }",
      "shader vertex { input vec4 p; input float w; output float depth; "
          \o "output vec4 q; main { depth = w; q = p; } }" }

\* One CodeGenerator used for several calls of generate, on a program
\* compiled with optimization disabled.
InitGenerate ==
    /\ \E text \in LocationSources, type \in ShaderTypes :
          /\ source = [t \in Threads |-> IF t = 1 THEN text ELSE ""]
          /\ shaderType = [t \in Threads |-> IF t = 1 THEN type ELSE ""]
    /\ optimizationEnabled = [t \in Threads |-> FALSE]
    /\ pc = [t \in Threads |-> IF t = 1 THEN "compile" ELSE "idle"]
    /\ InitCommon
    /\ RendererConstructed

NextGenerate ==
    \E self \in {1} :
        \/ Compile(self)
        \/ Lex(self)
        \/ Parse(self)
        \/ GenerateGLSL(self)
        \/ LoadCounter(self)
        \/ StoreCounter(self)
        \/ WriteGLSL(self)
        \/ RunTranslator(self, ConcurrentOutcomes)
        \/ CheckResult(self)
        \/ CheckOutput(self)
        \/ ReadSPIRV(self)
        \/ Cleanup(self)
        \/ Catch(self)
        \/ GenerateAgain(self)

SpecGenerate == InitGenerate /\ [][NextGenerate]_vars

\* A vertex ShaderDecl with a chain of dead assignments longer than the pass
\* limit and one with a single dead assignment, each alone, followed by a
\* fragment ShaderDecl and preceded by one; and the second followed by a
\* fragment ShaderDecl with a literal std::stof rejects.
StageSources ==
    LET fragment == "shader fragment { output vec4 o; main { o = vec4(1.0); } }"
        short == "shader vertex { input vec3 p; main { t = p * 1.0; "
                     \o "gl_Position = vec4(p, 1.0); } }"
    IN { DeadChain(MaxChain),
         DeadChain(MaxChain) \o " " \o fragment,
         fragment \o " " \o DeadChain(MaxChain),
         short,
         short \o " " \o fragment,
         fragment \o " " \o short,
         short \o " shader fragment { main { gl_FragDepth = x * "
             \o HugeLiteral \o "; } }" }

\* Two calls of compile for the same stage, with the optimizer enabled; the
\* second is made after the first.
InitStages ==
    /\ \E first \in StageSources, second \in StageSources :
          source = [t \in Threads |-> IF t = 1 THEN first ELSE second]
    /\ \E type \in ShaderTypes : shaderType = [t \in Threads |-> type]
    /\ optimizationEnabled = [t \in Threads |-> TRUE]
    /\ pc = [t \in Threads |-> IF t = 1 THEN "compile" ELSE "idle"]
    /\ InitCommon
    /\ RendererConstructed

\* The second call is made when the first has its GLSL text or has thrown.
CompileNext(self) ==
    /\ self = 2
    /\ pc[self] = "idle"
    /\ pc[1] \in {"inputPath", "thrown"}
    /\ pc' = Set(pc, self, "compile")
    /\ UNCHANGED <<driverVars, ast, optimizerVars, codegenVars, exception,
                   sharedVars>>
    /\ UNCHANGED rendererVars

\* The front end, the optimizer and generateGLSL of each call.
NextStages ==
    \E self \in Threads :
        \/ Compile(self)
        \/ Lex(self)
        \/ Parse(self)
        \/ OptimizeLoop(self)
        \/ OptimizeStatements(self)
        \/ EliminateDeadCode(self)
        \/ CollectStatistics(self)
        \/ GenerateGLSL(self)
        \/ Catch(self)
        \/ CompileNext(self)

SpecStages == InitStages /\ [][NextStages]_vars

\* The lexemes of the tokens from..to, a single space between two of them.
RECURSIVE JoinRange(_, _, _)
JoinRange(toks, from, to) ==
    IF from > to THEN ""
    ELSE IF from = to THEN toks[from].value
    ELSE JoinRange(toks, from, (from + to) \div 2) \o " "
             \o JoinRange(toks, (from + to) \div 2 + 1, to)

\* The lexemes of a token list without its END_OF_FILE token.
JoinLexemes(toks) == JoinRange(toks, 1, Len(toks) - 1)

\* Texts with tokens that touch, numbers that begin or end with the point,
\* comments and line breaks.
DenseSources ==
    { "shader vertex{input vec3 p;output vec2 q;// declarations\n"
          \o "main{q=p.xy*.5+vec2(1.,2)/p.z-3;\n\tgl_Position=vec4(p,1.0);}}"
          \o "shader fragment{main{gl_FragColor.a=1.5;}}",
      "// nothing but a comment" }

\* The front end run on a text and then, by a second compilation, on the
\* lexemes of its tokens joined by single spaces.
InitRoundTrip ==
    /\ \E text \in ValidSources \cup InvalidSources \cup IdentitySources
                      \cup LocationSources \cup DenseSources :
          source = [t \in Threads |-> IF t = 1 THEN text ELSE ""]
    /\ shaderType = [t \in Threads |-> "vertex"]
    /\ optimizationEnabled = [t \in Threads |-> TRUE]
    /\ pc = [t \in Threads |-> IF t = 1 THEN "compile" ELSE "idle"]
    /\ InitCommon
    /\ RendererConstructed

\* The second compilation is given the joined lexemes of the first, once the
\* first has parsed its text.
Rejoin(self) ==
    /\ self = 2
    /\ pc[self] = "idle"
    /\ pc[1] = "optimize"
    /\ source' = Set(source, self, JoinLexemes(tokens[1]))
    /\ pc' = Set(pc, self, "compile")
    /\ UNCHANGED <<shaderType, optimizationEnabled, lexer, tokens,
                   compilerStats, generatedGLSL, spirv, ast, optimizerVars,
                   codegenVars, exception, sharedVars>>
    /\ UNCHANGED rendererVars

NextRoundTrip ==
    \E self \in Threads :
        \/ Compile(self)
        \/ Lex(self)
        \/ Parse(self)
        \/ Catch(self)
        \/ Rejoin(self)

SpecRoundTrip == InitRoundTrip /\ [][NextRoundTrip]_vars

\* ------------------------------------------------------------------------
\* The renderer: VulkanRenderer's main loop (src/src/main.cpp).  Times are
\* in milliseconds.
\* ------------------------------------------------------------------------

\* static constexpr double RESIZE_THROTTLE = 0.1 (seconds).
RESIZE_THROTTLE == 100

\* const int MAX_FRAMES_IN_FLIGHT = 2.
MAX_FRAMES_IN_FLIGHT == 2

\* std::this_thread::sleep_for(std::chrono::milliseconds(16)).
ThrottleSleep == 16

\* stable_for_ms(75): the time the framebuffer size has to stay unchanged
\* before recreateSwapchain goes on.
StableFor == 75

\* The clock stops at MaxTime.
MaxTime == 400

\* The framebuffer sizes a window takes; 1 is WIDTH x HEIGHT.
Extents == {1, 2}

\* The time one frame takes when it neither sleeps nor recreates.
FrameTimes == {16, 40}

\* The time initWindow and initVulkan take.
InitTimes == {20, 120}

Clock(t) == IF t > MaxTime THEN MaxTime ELSE t

\* The window system still delivers resize events.
ResizePossible == time + 2 * RESIZE_THROTTLE <= MaxTime

\* What vkAcquireNextImageKHR and vkQueuePresentKHR may return: a swapchain
\* whose extent matches the window is reported as fine, one that does not may
\* be reported as fine, suboptimal or out of date; any call may fail.
SwapchainResults ==
    IF swapchainExtent = windowExtent
    THEN {"VK_SUCCESS", "VK_ERROR_DEVICE_LOST"}
    ELSE {"VK_SUCCESS", "VK_SUBOPTIMAL_KHR", "VK_ERROR_OUT_OF_DATE_KHR",
          "VK_ERROR_DEVICE_LOST"}

\* The resize events glfwWaitEventsTimeout may deliver while
\* recreateSwapchain waits for a stable size; 0 is no event.
WaitEvents ==
    {0} \cup (IF ResizePossible THEN Extents \ {windowExtent} ELSE {})

\* run(): initWindow opens the window with WIDTH x HEIGHT, initVulkan builds
\* the swapchain for it, then mainLoop starts.
Run ==
    /\ ~running
    /\ time = 0
    /\ running' = TRUE
    /\ \E started \in InitTimes :
        time' = started
    /\ UNCHANGED <<framebufferResized, lastResizeTime, resizeCount,
                   currentFrame, windowExtent, swapchainExtent>>
    /\ UNCHANGED compilerVars

\* framebufferResizeCallback, called from glfwPollEvents in mainLoop when the
\* user resizes the window.
FramebufferResizeCallback ==
    /\ running
    /\ ResizePossible
    /\ \E extent \in Extents \ {windowExtent} :
        windowExtent' = extent
    /\ framebufferResized' = TRUE
    /\ UNCHANGED <<lastResizeTime, resizeCount, currentFrame, time,
                   swapchainExtent, running>>
    /\ UNCHANGED compilerVars

\* recreateSwapchain, called at time now with the flag as drawFrame left it:
\* it waits until the size is stable (the callback may run meanwhile),
\* counts the resize and builds the swapchain for the window's size.
recreateSwapchain(now, flag, event) ==
    /\ lastResizeTime' = now
    /\ windowExtent' = IF event = 0 THEN windowExtent ELSE event
    /\ framebufferResized' = (flag \/ event # 0)
    /\ resizeCount' = resizeCount + 1
    /\ swapchainExtent' = windowExtent'
    /\ time' = Clock(now + StableFor)

\* The throttle test both places of drawFrame make: recreate when the last
\* recreation is RESIZE_THROTTLE or more ago, else sleep and recreate nothing.
recreateOrSleep(now, flag, event) ==
    IF now - lastResizeTime >= RESIZE_THROTTLE
    THEN recreateSwapchain(now, flag, event)
    ELSE /\ framebufferResized' = flag
         /\ time' = Clock(now + ThrottleSleep)
         /\ UNCHANGED <<lastResizeTime, resizeCount, windowExtent,
                        swapchainExtent>>

\* A throw out of drawFrame ends mainLoop.
throwFrom(now) ==
    /\ running' = FALSE
    /\ time' = now
    /\ UNCHANGED <<framebufferResized, lastResizeTime, resizeCount,
                   currentFrame, windowExtent, swapchainExtent>>

\* drawFrame, one iteration of mainLoop.
DrawFrame ==
    /\ running
    /\ \E d \in FrameTimes, acquired \in SwapchainResults,
          presented \in SwapchainResults, event \in WaitEvents :
        \E now \in {Clock(time + d)} :
            IF acquired = "VK_ERROR_OUT_OF_DATE_KHR"
            THEN /\ recreateOrSleep(now, framebufferResized, event)
                 /\ UNCHANGED <<currentFrame, running>>
            ELSE IF acquired \notin {"VK_SUCCESS", "VK_SUBOPTIMAL_KHR"}
            THEN throwFrom(now)
            ELSE IF \/ presented \in {"VK_ERROR_OUT_OF_DATE_KHR",
                                      "VK_SUBOPTIMAL_KHR"}
                    \/ framebufferResized
            THEN /\ recreateOrSleep(now, FALSE, event)
                 /\ currentFrame' = (currentFrame + 1) % MAX_FRAMES_IN_FLIGHT
                 /\ UNCHANGED running
            ELSE IF presented # "VK_SUCCESS"
            THEN throwFrom(now)
            ELSE /\ time' = now
                 /\ currentFrame' = (currentFrame + 1) % MAX_FRAMES_IN_FLIGHT
                 /\ UNCHANGED <<framebufferResized, lastResizeTime,
                                resizeCount, windowExtent, swapchainExtent,
                                running>>
    /\ UNCHANGED compilerVars

\* glfwWindowShouldClose becomes true (the window is closed or ESC is
\* pressed): mainLoop leaves its loop.
CloseWindow ==
    /\ running
    /\ running' = FALSE
    /\ UNCHANGED <<framebufferResized, lastResizeTime, resizeCount,
                   currentFrame, time, windowExtent, swapchainExtent>>
    /\ UNCHANGED compilerVars

\* The renderer alone: no compile call is in progress.
InitRender ==
    /\ source = [t \in Threads |-> ""]
    /\ shaderType = [t \in Threads |-> ""]
    /\ optimizationEnabled = [t \in Threads |-> TRUE]
    /\ pc = [t \in Threads |-> "idle"]
    /\ InitCommon
    /\ RendererConstructed

NextRender ==
    \/ Run
    \/ FramebufferResizeCallback
    \/ DrawFrame
    \/ CloseWindow

\* mainLoop calls drawFrame in every iteration of its loop.
SpecRender == InitRender /\ [][NextRender]_vars /\ WF_vars(DrawFrame)

(***************************************************************************)
(* Properties                                                              *)
(***************************************************************************)

\* The variables an expression reads.
RECURSIVE NamesRead(_)
NamesRead(expr) ==
    CASE expr.type = "IDENTIFIER" -> {expr.name}
      [] expr.type = "BINARY_OP" -> NamesRead(expr.left) \cup NamesRead(expr.right)
      [] expr.type = "MEMBER_ACCESS" -> NamesRead(expr.object)
      [] expr.type = "FUNCTION_CALL" ->
            UNION {NamesRead(expr.arguments[i]) : i \in DOMAIN expr.arguments}
      [] OTHER -> {}

\* The variables the value expressions of a ShaderDecl's statements read.
NamesReadIn(shader) ==
    UNION {NamesRead(shader.statements[i].value) : i \in DOMAIN shader.statements}

\* Whether a target is a variable or a member of a variable.
IsLvalue(target) ==
    \/ target.type = "IDENTIFIER"
    \/ target.type = "MEMBER_ACCESS" /\ target.object.type = "IDENTIFIER"

\* The base name of an lvalue target.
BaseName(target) ==
    IF target.type = "IDENTIFIER" THEN target.name ELSE target.object.name

\* The names of a ShaderDecl's declared outputs.
OutputNames(shader) == {shader.outputs[i].name : i \in DOMAIN shader.outputs}

\* Whether compilation t holds a parsed Program.
HasProgram(t) == ast[t].type = "PROGRAM"

\* The statements of a ShaderDecl that assign to a declared output or to a
\* built-in output, reduced to their targets, in order.
RECURSIVE OutputTargetsFrom(_, _)
OutputTargetsFrom(shader, i) ==
    IF i > Len(shader.statements) THEN <<>>
    ELSE LET target == shader.statements[i].target IN
         (IF /\ IsLvalue(target)
             /\ BaseName(target) \in OutputNames(shader)
                    \cup {"gl_Position", "gl_FragColor", "gl_FragDepth"}
          THEN <<target>> ELSE <<>>)
             \o OutputTargetsFrom(shader, i + 1)

OutputTargets(shader) == OutputTargetsFrom(shader, 1)

\* C1: the AST a second optimize call (fresh Optimizer) returns equals the
\* AST the first call returned.
C1_Idempotent ==
    \A t \in Threads :
        (pc[t] = "optimized" /\ run[t] = 2) => ast[t] = firstAst[t]

\* C2: optimize never throws, and when it returns it has run between 1 and
\* 10 iterations and either the last one reported no change or the cap of 10
\* was reached.
C2_OptimizeReturns ==
    \A t \in Threads :
        /\ exception[t].origin # "Optimizer"
        /\ pc[t] = "optimized" =>
              /\ stats[t].totalPasses >= 1
              /\ stats[t].totalPasses <= 10
              /\ ~changed[t] \/ stats[t].totalPasses = 10

\* C3: every statement a call of deadCodeEliminationPass removes from a
\* ShaderDecl is an Assignment whose target base name is, in the state the
\* call starts from, read by no statement of that ShaderDecl, not a declared
\* output of it and not gl_Position, gl_FragColor or gl_FragDepth.
C3_RemovedIsDead ==
    [][\A t \in Threads :
          pc[t] = "dce" =>
              \A d \in DOMAIN ast[t].declarations :
                  LET before == ast[t].declarations[d]
                      after == ast'[t].declarations[d] IN
                  \A i \in DOMAIN before.statements :
                      (\A j \in DOMAIN after.statements :
                           after.statements[j] # before.statements[i])
                      => /\ before.statements[i].type = "ASSIGNMENT"
                         /\ IsLvalue(before.statements[i].target)
                         /\ LET name == BaseName(before.statements[i].target) IN
                            /\ name \notin NamesReadIn(before)
                            /\ name \notin OutputNames(before)
                            /\ name \notin {"gl_Position", "gl_FragColor",
                                            "gl_FragDepth"}]_vars

\* C3's case: the optimizer is running and dead code elimination has removed
\* a statement while another statement that reads a variable was kept.
C3_Witness ==
    \E t \in Threads :
        /\ pc[t] = "statements" \/ pc[t] = "optimize"
        /\ stats[t].deadCodeRemoved > 0
        /\ \E d \in DOMAIN ast[t].declarations :
              \E i \in DOMAIN ast[t].declarations[d].statements :
                  LET stmt == ast[t].declarations[d].statements[i] IN
                  /\ IsLvalue(stmt.target)
                  /\ BaseName(stmt.target) \in NamesReadIn(ast[t].declarations[d])

\* C4: no step of a compilation removes an Assignment to a declared output
\* or a built-in output: in every ShaderDecl the targets of those
\* assignments stay the same, in the same order.
C4_OutputsLive ==
    [][\A t \in Threads :
          (HasProgram(t) /\ ast'[t].type = "PROGRAM") =>
              /\ Len(ast'[t].declarations) = Len(ast[t].declarations)
              /\ \A d \in DOMAIN ast[t].declarations :
                    OutputTargets(ast'[t].declarations[d])
                        = OutputTargets(ast[t].declarations[d])]_vars

\* C4's case: optimize has returned after removing dead code, and the
\* program still assigns to a declared output that nothing reads and to a
\* built-in output.
C4_Witness ==
    \E t \in Threads :
        /\ pc[t] = "optimized"
        /\ stats[t].deadCodeRemoved > 0
        /\ \E d \in DOMAIN ast[t].declarations :
              LET shader == ast[t].declarations[d]
                  kept == {BaseName(shader.statements[i].target) :
                              i \in DOMAIN shader.statements} IN
              /\ (kept \cap OutputNames(shader)) \ NamesReadIn(shader) # {}
              /\ kept \cap {"gl_Position", "gl_FragColor", "gl_FragDepth"} # {}

\* C5: every Assignment of a Program the parser produced has an Identifier,
\* or a MemberAccess of an Identifier, as its target.
C5_LvalueTargets ==
    \A t \in Threads :
        HasProgram(t) =>
            \A d \in DOMAIN ast[t].declarations :
                \A i \in DOMAIN ast[t].declarations[d].statements :
                    IsLvalue(ast[t].declarations[d].statements[i].target)

\* C6: a Program the parser produced has at most one ShaderDecl of each
\* stage.
C6_OneDeclPerStage ==
    \A t \in Threads :
        HasProgram(t) =>
            \A d, e \in DOMAIN ast[t].declarations :
                ast[t].declarations[d].shaderType
                    = ast[t].declarations[e].shaderType => d = e

\* C7: the words a successful compile returns begin with the SPIR-V magic
\* number 0x07230203.
C7_MagicFirst ==
    \A t \in Threads :
        pc[t] = "returned" => spirv[t] # <<>> /\ spirv[t][1] = 119734787

\* C8: once compileGLSLToSPIRV has returned or thrown, neither of the two
\* temporary files it named exists.
C8_TempFilesRemoved ==
    \A t \in Threads :
        pc[t] \in {"catch", "thrown", "returned"} =>
            /\ inputFile[t] \notin DOMAIN files
            /\ outputFile[t] \notin DOMAIN files

\* C8's case: the translator exited with status 0 and left an output file
\* that readSPIRVFile rejected, and the exception has left
\* compileGLSLToSPIRV.
C8_Witness ==
    \E t \in Threads :
        /\ pc[t] = "thrown"
        /\ outputFile[t] # ""
        /\ result[t] = 0
        /\ exception[t].what
               \in {"[Code Generation Error] Invalid SPIR-V file: incorrect magic number",
                    "[Code Generation Error] Invalid SPIR-V file: size is not a multiple of 4 bytes"}

\* The paths generateTempFilePath has returned to compilation t.
PathsOf(t) == {inputFile[t], outputFile[t]} \ {""}

\* C9: the paths generateTempFilePath returns to two concurrent compilations
\* are pairwise distinct.
C9_DistinctPaths ==
    \A t, u \in Threads :
        t # u => PathsOf(t) \cap PathsOf(u) = {}

\* The stage a failure raised by each component is to be reported with, and
\* the prefix of its message.
StageOf(origin) ==
    CASE origin = "Lexer" -> "LEXING"
      [] origin = "Parser" -> "PARSING"
      [] origin = "CodeGenerator" -> "CODE_GENERATION"

PrefixOf(origin) ==
    CASE origin = "Lexer" -> "[Lexing Error]"
      [] origin = "Parser" -> "[Parsing Error]"
      [] origin = "CodeGenerator" -> "[Code Generation Error]"

\* C10: the error compile throws for a failure raised by the lexer, the
\* parser or the code generator (the translator included) carries the stage
\* of that component, and its message the stage's prefix.
C10_StageOfFailure ==
    \A t \in Threads :
        (pc[t] = "thrown" /\ exception[t].origin \in {"Lexer", "Parser", "CodeGenerator"})
        => /\ exception[t].type = "ShaderCompilationError"
           /\ exception[t].stage = StageOf(exception[t].origin)
           /\ SubSeq(exception[t].what, 1, Len(PrefixOf(exception[t].origin)))
                  = PrefixOf(exception[t].origin)

\* The four kinds of ShaderCompilationError::Stage.
Stages == {"LEXING", "PARSING", "OPTIMIZATION", "CODE_GENERATION"}

\* C11: every failure of compile reaches the caller as a
\* ShaderCompilationError of one of the four stages; no exception of another
\* type leaves compile, whatever the source, the stage string and the
\* optimizer setting.
C11_SingleErrorType ==
    \A t \in Threads :
        pc[t] = "thrown"
        => /\ exception[t].type = "ShaderCompilationError"
           /\ exception[t].stage \in Stages

\* The token the parser stood on when it gave up on these tokens.
OffendingToken(toks) == current(toks, parse(toks).pos)

\* The message tells this position: it holds the digits of the line and of
\* the column.
TellsPosition(what, line, column) ==
    /\ Find(what, to_string(line))
    /\ Find(what, to_string(column))

\* C12: the error compile throws for a failure of the lexer carries the line
\* and the column of the offending character, and the error for a failure of
\* the parser the line and the column of the offending token.
C12_ErrorPositions ==
    \A t \in Threads :
        pc[t] = "thrown"
        => /\ exception[t].origin = "Lexer"
                  => TellsPosition(exception[t].what, lexer[t].line,
                                   lexer[t].column)
           /\ exception[t].origin = "Parser"
                  => TellsPosition(exception[t].what,
                                   OffendingToken(tokens[t]).line,
                                   OffendingToken(tokens[t]).column)

\* Where a compilation is, as the number of the stage it is in: 1 lexing,
\* 2 parsing, 3 optimization, 4 GLSL generation, 5 the translation to SPIR-V
\* with its temporary files, 6 the ways out of compile.
StageNumber(at) ==
    CASE at \in {"idle", "compile"} -> 0
      [] at = "lex" -> 1
      [] at = "parse" -> 2
      [] at \in {"optimize", "statements", "dce", "optimized"} -> 3
      [] at = "generate" -> 4
      [] at \in {"inputPath", "inputPathStore", "outputPath",
                 "outputPathStore", "write", "popen", "result", "exists",
                 "read", "cleanup"} -> 5
      [] OTHER -> 6

LexingSucceeded(t) ==
    /\ tokens[t] # <<>>
    /\ tokens[t][Len(tokens[t])].type = "END_OF_FILE"

ParsingSucceeded(t) == ast[t].type = "PROGRAM"

OptimizationSucceeded(t) ==
    optimizationEnabled[t]
    => /\ stats[t].totalPasses >= 1
       /\ compilerStats[t].optimizationPasses = stats[t].totalPasses

GenerationSucceeded(t) ==
    /\ glslCode[t] # ""
    /\ \E i \in 1..Len(ast[t].declarations) :
          ast[t].declarations[i].shaderType = shaderType[t]

\* Compilation t has created a temporary path or file, or has reached the
\* steps that write the GLSL file and run the translator.
TranslationStarted(t) ==
    \/ StageNumber(pc[t]) = 5
    \/ inputFile[t] # ""
    \/ outputFile[t] # ""
    \/ cmdOutput[t] # ""
    \/ spirv[t] # <<>>

\* Compilation t failed in the lexer, the parser, the optimizer or
\* generateGLSL.
FailedBeforeTranslation(t) ==
    /\ exception[t] # NoException
    /\ \/ exception[t].origin
              \in {"ShaderCompiler", "Lexer", "Parser", "Optimizer"}
       \/ Find(exception[t].what, "No shader declaration found")

\* C13: the stages run in the order lex, parse, optimize, emit, and the
\* first error ends compile: a temporary file exists or the translator is
\* started only after lexing, parsing, optimization and GLSL generation
\* (with the ShaderDecl of the requested type found) have all succeeded, and
\* once a stage has failed no later stage runs and nothing but the error
\* itself changes.
C13_StagesInOrder ==
    /\ [](\A t \in Threads :
            /\ StageNumber(pc[t]) \in 2..5 => LexingSucceeded(t)
            /\ StageNumber(pc[t]) \in 3..5 => ParsingSucceeded(t)
            /\ StageNumber(pc[t]) \in 4..5 => OptimizationSucceeded(t)
            /\ TranslationStarted(t)
                   => /\ LexingSucceeded(t)
                      /\ ParsingSucceeded(t)
                      /\ OptimizationSucceeded(t)
                      /\ GenerationSucceeded(t)
            /\ FailedBeforeTranslation(t) => ~TranslationStarted(t))
    /\ []((files # NoFiles \/ tempFileCounter > 0)
             => \E t \in Threads :
                    /\ LexingSucceeded(t)
                    /\ ParsingSucceeded(t)
                    /\ OptimizationSucceeded(t)
                    /\ GenerationSucceeded(t))
    /\ [][\A t \in Threads :
            /\ StageNumber(pc'[t]) >= StageNumber(pc[t])
            /\ StageNumber(pc'[t]) <= 5
                   => StageNumber(pc'[t]) <= StageNumber(pc[t]) + 1
                          \/ (StageNumber(pc[t]) = 2 /\ StageNumber(pc'[t]) = 4
                                 /\ ~optimizationEnabled[t])
            /\ FailedBeforeTranslation(t)
                   => /\ StageNumber(pc'[t]) = 6
                      /\ UNCHANGED <<tokens, ast, stats, glslCode, inputFile,
                                     outputFile, cmdOutput, spirv,
                                     tempFileCounter, files>>]_vars

\* A compilation whose GLSL generation failed, no ShaderDecl of the
\* requested type being there, after the three stages before it succeeded:
\* no temporary file, no path, no run of the translator.
C13_Witness ==
    \E t \in Threads :
        /\ pc[t] = "thrown"
        /\ exception[t].origin = "CodeGenerator"
        /\ Find(exception[t].what,
                "No shader declaration found for type: fragment")
        /\ LexingSucceeded(t) /\ ParsingSucceeded(t)
        /\ optimizationEnabled[t] /\ stats[t].totalPasses >= 1
        /\ files = NoFiles /\ tempFileCounter = 0

\* The declarations 1..n of a list as the generated text is to show them:
\* declaration i at location i - 1.
RECURSIVE DeclarationsAtIndex(_, _, _)
DeclarationsAtIndex(decls, qualifier, n) ==
    IF n = 0 THEN ""
    ELSE DeclarationsAtIndex(decls, qualifier, n - 1)
             \o "layout(location = " \o to_string(n - 1) \o ") " \o qualifier
             \o " " \o mapType(decls[n].varType) \o " " \o decls[n].name
             \o ";\n"

\* The GLSL of a ShaderDecl whose inputs and whose outputs are each numbered
\* from 0 in declaration order.
NumberedFromZero(shader) ==
    "#version 450\n\n"
        \o DeclarationsAtIndex(shader.inputs, "in", Len(shader.inputs))
        \o (IF shader.inputs # <<>> THEN "\n" ELSE "")
        \o DeclarationsAtIndex(shader.outputs, "out", Len(shader.outputs))
        \o (IF shader.outputs # <<>> THEN "\n" ELSE "")
        \o generateMainFunction(shader.statements)

\* The first ShaderDecl of the type compilation t asks for.
RequestedShader(t) ==
    ast[t].declarations[
        CHOOSE i \in 1..Len(ast[t].declarations) :
            /\ ast[t].declarations[i].shaderType = shaderType[t]
            /\ \A j \in 1..(i - 1) :
                  ast[t].declarations[j].shaderType # shaderType[t]]

\* C14: in the text every call of generateGLSL produces, the i-th Input
\* (from 0) is declared at location i and the j-th Output at location j of
\* a counter of its own, both counters starting at 0 again in every call on
\* the same CodeGenerator.
C14_LocationsFromZero ==
    [][\A t \in Threads :
          (pc[t] = "generate" /\ pc'[t] = "inputPath")
          => /\ glslCode'[t] = NumberedFromZero(RequestedShader(t))
             /\ locations'[t] =
                    Locations(Len(RequestedShader(t).inputs),
                              Len(RequestedShader(t).outputs))]_vars

\* A second call of generate on a CodeGenerator whose first call numbered
\* inputs and outputs has generated the three inputs and two outputs of a
\* vertex stage.
C14_Witness ==
    \E t \in Threads :
        /\ pc[t] = "inputPath"
        /\ tempFileCounter >= 2
        /\ locations[t] = Locations(3, 2)
        /\ Find(glslCode[t], "layout(location = 2) in vec2 uv;")
        /\ Find(glslCode[t], "layout(location = 1) out vec2 fragUV;")

\* Two expressions of the same shape, with the same names and operators;
\* their literals have the same lexemes (exact) or only the same values.
RECURSIVE Alike(_, _, _)
Alike(a, b, exact) ==
    /\ a.type = b.type
    /\ CASE a.type = "LITERAL" ->
                IF exact THEN a.value = b.value
                ELSE stof(a.value) = stof(b.value)
         [] a.type = "IDENTIFIER" -> a.name = b.name
         [] a.type = "BINARY_OP" ->
                /\ a.op = b.op
                /\ Alike(a.left, b.left, exact)
                /\ Alike(a.right, b.right, exact)
         [] a.type = "MEMBER_ACCESS" ->
                /\ a.member = b.member
                /\ Alike(a.object, b.object, exact)
         [] a.type = "FUNCTION_CALL" ->
                /\ a.functionName = b.functionName
                /\ Len(a.arguments) = Len(b.arguments)
                /\ \A i \in 1..Len(a.arguments) :
                      Alike(a.arguments[i], b.arguments[i], exact)
         [] OTHER -> FALSE

\* The literals 1 and 0 as a program writes them.
IsOne(node) == node.type = "LITERAL" /\ node.value \in {"1", "1.0"}

IsZero(node) == node.type = "LITERAL" /\ node.value \in {"0", "0.0"}

\* One iteration's two rewriting passes leave an assignment of x as it is.
LeftUnchanged(x) ==
    LET same(passed) ==
            /\ passed.thrown = ""
            /\ ~passed.changed
            /\ Alike(passed.node[1].value, x, TRUE)
    IN same(optimizeStatements(
                <<AssignmentNode(IdentifierNode("gl_Position"), x)>>, 1,
                PassResult(<<>>, FALSE, 0, 0)))

\* What the identities promise for the value v of an assignment of the
\* program and the value w the optimizer left in its place.
IdentityHolds(v, w, exact) ==
    v.type = "BINARY_OP"
    => /\ (v.op \in {"*", "/"} /\ IsOne(v.right) /\ LeftUnchanged(v.left))
              => Alike(w, v.left, exact)
       /\ (v.op = "*" /\ IsOne(v.left) /\ LeftUnchanged(v.right))
              => Alike(w, v.right, exact)
       /\ (v.op \in {"+", "-"} /\ IsZero(v.right) /\ LeftUnchanged(v.left))
              => Alike(w, v.left, exact)
       /\ (v.op = "+" /\ IsZero(v.left) /\ LeftUnchanged(v.right))
              => Alike(w, v.right, exact)
       /\ (v.op = "*" /\ \/ IsZero(v.right) /\ LeftUnchanged(v.left)
                         \/ IsZero(v.left) /\ LeftUnchanged(v.right))
              => IsZero(w)

\* The identities on every statement of the programs from which dead-code
\* elimination removed nothing, when optimize has returned.
IdentitiesHold(exact) ==
    \A t \in Threads :
        (pc[t] = "optimized" /\ run[t] = 1)
        => LET compare(before, after) ==
                   \A d \in 1..Len(before) :
                       Len(before[d].statements) = Len(after[d].statements)
                       => \A i \in 1..Len(before[d].statements) :
                              IdentityHolds(before[d].statements[i].value,
                                            after[d].statements[i].value,
                                            exact)
           IN compare(parse(tokens[t]).node.declarations,
                      ast[t].declarations)

RECURSIVE Ulp(_)
Ulp(a) == IF a < 16 * FloatScale THEN 1 ELSE 2 * Ulp(a \div 2)

\* The result of the operation on two operand values, in units.
ArithmeticResult(op, left, right) ==
    CASE op = "+" -> left + right
      [] op = "-" -> left - right
      [] op = "*" -> FloatMul(left, right)
      [] op = "/" -> FloatDiv(left, right)

\* The value v of an assignment of the program is an operation on two
\* literals that folding is to evaluate.
IsFoldable(v) ==
    /\ v.type = "BINARY_OP"
    /\ v.op \in {"+", "-", "*", "/"}
    /\ v.left.type = "LITERAL" /\ ~stofThrows(v.left.value)
    /\ v.right.type = "LITERAL" /\ ~stofThrows(v.right.value)
    /\ v.op = "/" => Abs(stof(v.right.value)) >= Tolerance

\* The literal w stands for the result of the operation v within one unit
\* in the last place.
FoldedWithinUlp(v, w) ==
    LET near(expected) ==
            /\ w.type = "LITERAL"
            /\ Abs(stof(w.value) - expected) <= Ulp(Abs(expected))
    IN near(ArithmeticResult(v.op, stof(v.left.value), stof(v.right.value)))

\* C16: the literal constant folding installs for a BinaryOp of two
\* literals (a divisor being at least 0.0001 in magnitude), read back from
\* its lexeme, is the arithmetic result of the operation on the operand
\* values to within one unit in the last place.
C16_FoldedValue ==
    \A t \in Threads :
        (pc[t] = "optimized" /\ run[t] = 1)
        => LET compare(before, after) ==
                   \A d \in 1..Len(before) :
                       Len(before[d].statements) = Len(after[d].statements)
                       => \A i \in 1..Len(before[d].statements) :
                              IsFoldable(before[d].statements[i].value)
                              => FoldedWithinUlp(
                                     before[d].statements[i].value,
                                     after[d].statements[i].value)
           IN compare(parse(tokens[t]).node.declarations,
                      ast[t].declarations)

\* Two token lists with the same kinds and lexemes, token by token.
SameTokens(a, b) ==
    /\ Len(a) = Len(b)
    /\ \A i \in 1..Len(a) : a[i].type = b[i].type /\ a[i].value = b[i].value

\* C17: the lexemes of the tokens of a text that lexes and parses, joined by
\* single spaces without the end-of-input token, are a text that lexes and
\* parses too, to the same tokens and a structurally identical AST.
C17_RoundTrip ==
    /\ pc[2] \notin {"catch", "thrown"}
    /\ pc[2] = "parse" => SameTokens(tokens[2], tokens[1])
    /\ pc[2] = "optimize" => ast[2] = ast[1]

\* The joined lexemes of a text whose tokens touch and whose numbers begin
\* and end with the point have been parsed.
C17_Witness ==
    /\ pc[2] = "optimize"
    /\ source[2] # source[1]
    /\ Find(source[1], "q=p.xy*.5+vec2(1.,2)/p.z-3;")
    /\ Find(source[2], "q = p . xy * .5 + vec2 ( 1. , 2 ) / p . z - 3 ;")
    /\ Len(ast[2].declarations) = 2

\* A lexeme std::stof reads whole as a binary32 number: an optional sign,
\* digits with at most one point and at least one digit, an optional
\* exponent, the value in range.
ParsableLexeme(lexeme) ==
    LET exponent(e0) ==
            \/ e0 > Len(lexeme)
            \/ /\ CharAt(lexeme, e0 - 1) = "e"
               /\ CharAt(lexeme, e0) \in {"+", "-"}
               /\ RunLength(lexeme, e0 + 2, DecimalDigits) >= 1
               /\ e0 + 1 + RunLength(lexeme, e0 + 2, DecimalDigits)
                      = Len(lexeme)
        fraction(nInt, f0, nFrac) ==
            /\ nInt + nFrac >= 1
            /\ exponent(f0 + nFrac)
        integer(i0, nInt) ==
            IF CharAt(lexeme, i0 + nInt - 1) = "."
            THEN fraction(nInt, i0 + nInt + 1,
                          RunLength(lexeme, i0 + nInt + 1, DecimalDigits))
            ELSE fraction(nInt, i0 + nInt, 0)
        signed(i0) == integer(i0, RunLength(lexeme, i0, DecimalDigits))
    IN /\ signed(IF CharAt(lexeme, 0) = "-" THEN 2 ELSE 1)
       /\ ~stofThrows(lexeme)

\* The four operators of a BinaryOp.
Operators == {"+", "-", "*", "/"}

\* An expression of the variants of the data model, every operator one of
\* the four, every literal parsable.
RECURSIVE WellFormedExpression(_)
WellFormedExpression(node) ==
    CASE node.type = "LITERAL" -> ParsableLexeme(node.value)
      [] node.type = "IDENTIFIER" -> TRUE
      [] node.type = "BINARY_OP" ->
             /\ node.op \in Operators
             /\ WellFormedExpression(node.left)
             /\ WellFormedExpression(node.right)
      [] node.type = "MEMBER_ACCESS" -> WellFormedExpression(node.object)
      [] node.type = "FUNCTION_CALL" ->
             \A i \in 1..Len(node.arguments) :
                 WellFormedExpression(node.arguments[i])
      [] OTHER -> FALSE

\* Invariants 2 to 5 of the data model on one ShaderDecl.
WellFormedShader(shader) ==
    /\ shader.type = "SHADER_DECL"
    /\ LET unique(decls) ==
               \A i, j \in 1..Len(decls) :
                   decls[i].name = decls[j].name => i = j
       IN unique(shader.inputs \o shader.outputs)
    /\ \A i \in 1..Len(shader.statements) :
          /\ shader.statements[i].type = "ASSIGNMENT"
          /\ IsLvalue(shader.statements[i].target)
          /\ WellFormedExpression(shader.statements[i].target)
          /\ WellFormedExpression(shader.statements[i].value)

\* The invariants of the data model on a Program.
WellFormed(program) ==
    /\ program.type = "PROGRAM"
    /\ \A d, e \in 1..Len(program.declarations) :
          program.declarations[d].shaderType
              = program.declarations[e].shaderType => d = e
    /\ \A d \in 1..Len(program.declarations) :
          WellFormedShader(program.declarations[d])

\* The targets of the statements `after` from the i-th on are, in order,
\* targets of the statements `before` from the j-th on.
RECURSIVE TargetsKept(_, _, _, _)
TargetsKept(after, before, i, j) ==
    IF i > Len(after) THEN TRUE
    ELSE IF j > Len(before) THEN FALSE
    ELSE IF after[i].target = before[j].target
    THEN TargetsKept(after, before, i + 1, j + 1)
    ELSE TargetsKept(after, before, i, j + 1)

\* A step from the Program `before` to the Program `after` changes no stage
\* tag, no Input list, no Output list and no target of an assignment it
\* keeps.
DeclarationsKept(before, after) ==
    /\ Len(after.declarations) = Len(before.declarations)
    /\ \A d \in 1..Len(before.declarations) :
          /\ after.declarations[d].shaderType
                 = before.declarations[d].shaderType
          /\ after.declarations[d].inputs = before.declarations[d].inputs
          /\ after.declarations[d].outputs = before.declarations[d].outputs
          /\ TargetsKept(after.declarations[d].statements,
                         before.declarations[d].statements, 1, 1)

AssignmentsTo(statements, name) ==
    {i \in 1..Len(statements) :
        /\ IsLvalue(statements[i].target)
        /\ BaseName(statements[i].target) = name}

\* The ShaderDecl `shader` of the program as parsed assigns to `unused` and
\* reads it nowhere.
AssignsUnused(shader) ==
    /\ AssignmentsTo(shader.statements, "unused") # {}
    /\ "unused" \notin NamesReadIn(shader)

MatchesRewrite(node) ==
    /\ node.type = "BINARY_OP"
    /\ \/ node.op \in {"*", "/"} /\ IsOne(node.right)
       \/ node.op = "*" /\ (IsOne(node.left) \/ IsZero(node.left)
                               \/ IsZero(node.right))
       \/ node.op \in {"+", "-"} /\ IsZero(node.right)
       \/ node.op = "+" /\ IsZero(node.left)
       \/ /\ node.op \in {"*", "+"}
          /\ node.right.type = "LITERAL"
          /\ node.left.type = "BINARY_OP"
          /\ node.left.op = node.op
          /\ node.left.right.type = "LITERAL"
       \/ /\ node.op \in {"*", "+"}
          /\ node.left.type = "LITERAL"
          /\ node.right.type = "BINARY_OP"
          /\ node.right.op = node.op
          /\ node.right.right.type = "LITERAL"

\* No BinaryOp of the expression, at any depth, matches the rewrite table.
RECURSIVE FullySimplified(_)
FullySimplified(node) ==
    CASE node.type = "BINARY_OP" ->
             /\ ~MatchesRewrite(node)
             /\ FullySimplified(node.left)
             /\ FullySimplified(node.right)
      [] node.type = "MEMBER_ACCESS" -> FullySimplified(node.object)
      [] node.type = "FUNCTION_CALL" ->
             \A i \in 1..Len(node.arguments) :
                 FullySimplified(node.arguments[i])
      [] OTHER -> TRUE

\* C20: when optimize returns after fewer than 10 iterations, no BinaryOp
\* anywhere in the value of a statement, an operand of another BinaryOp
\* included, still matches a pattern of the rewrite table.
C20_NoPatternLeft ==
    \A t \in Threads :
        (pc[t] = "optimized" /\ stats[t].totalPasses < maxPasses)
        => \A d \in 1..Len(ast[t].declarations) :
               \A i \in 1..Len(ast[t].declarations[d].statements) :
                   FullySimplified(ast[t].declarations[d].statements[i].value)

(***************************************************************************)
(* C21: constant folding is complete and guarded                           *)
(***************************************************************************)

\* A division of two literals whose right literal is below the tolerance of
\* foldBinaryOp in absolute value.
GuardedDivision(node) ==
    /\ node.type = "BINARY_OP"
    /\ node.op = "/"
    /\ node.left.type = "LITERAL"
    /\ node.right.type = "LITERAL"
    /\ ~stofThrows(node.right.value)
    /\ Abs(stof(node.right.value)) < Tolerance

\* No BinaryOp of the expression, at any depth, has two literal operands,
\* the guarded divisions apart.
RECURSIVE NoLiteralPair(_)
NoLiteralPair(node) ==
    CASE node.type = "BINARY_OP" ->
             /\ (node.left.type = "LITERAL" /\ node.right.type = "LITERAL")
                    => GuardedDivision(node)
             /\ NoLiteralPair(node.left)
             /\ NoLiteralPair(node.right)
      [] node.type = "MEMBER_ACCESS" -> NoLiteralPair(node.object)
      [] node.type = "FUNCTION_CALL" ->
             \A i \in 1..Len(node.arguments) : NoLiteralPair(node.arguments[i])
      [] OTHER -> TRUE

\* Every guarded division of the expression `before` is at the same place in
\* `after`, unchanged.
RECURSIVE GuardedKept(_, _)
GuardedKept(before, after) ==
    CASE GuardedDivision(before) -> after = before
      [] before.type = "BINARY_OP" /\ ~GuardedDivision(before) ->
             after.type = "BINARY_OP"
                 => /\ GuardedKept(before.left, after.left)
                    /\ GuardedKept(before.right, after.right)
      [] before.type = "MEMBER_ACCESS" ->
             /\ after.type = "MEMBER_ACCESS"
             /\ GuardedKept(before.object, after.object)
      [] before.type = "FUNCTION_CALL" ->
             /\ after.type = "FUNCTION_CALL"
             /\ Len(after.arguments) = Len(before.arguments)
             /\ \A i \in 1..Len(before.arguments) :
                    GuardedKept(before.arguments[i], after.arguments[i])
      [] OTHER -> TRUE

\* The guarded divisions of an expression, at any depth.
RECURSIVE GuardedDivisions(_)
GuardedDivisions(node) ==
    CASE GuardedDivision(node) -> {node}
      [] node.type = "BINARY_OP" /\ ~GuardedDivision(node) ->
             GuardedDivisions(node.left) \cup GuardedDivisions(node.right)
      [] node.type = "MEMBER_ACCESS" -> GuardedDivisions(node.object)
      [] node.type = "FUNCTION_CALL" ->
             UNION {GuardedDivisions(node.arguments[i]) :
                        i \in 1..Len(node.arguments)}
      [] OTHER -> {}

\* What C21 says of one statement and of the statement constantFoldingPass
\* leaves of it.
FoldedCompletely(stmt, folded) ==
    folded.thrown = ""
        => /\ NoLiteralPair(folded.node.value)
           /\ GuardedKept(stmt.value, folded.node.value)

\* C21: when the statement loop of optimize runs over a ShaderDecl,
\* constantFoldingPass leaves in the value of each statement no BinaryOp of
\* two literals, at any depth, except the divisions by a literal below
\* 0.0001, which it leaves as they are; the statements the loop leaves have
\* no such BinaryOp either, and a guarded division of the requested
\* ShaderDecl is in the GLSL text as a BinaryOp.
C21_FoldingComplete ==
    /\ [][\A t \in Threads :
            (pc[t] = "statements" /\ pc'[t] = "dce")
            => LET folds(before, after) ==
                       \A i \in 1..Len(before) :
                           /\ FoldedCompletely(before[i],
                                  constantFoldingPass(before[i]))
                           /\ NoLiteralPair(after[i].value)
               IN folds(ast[t].declarations[declIdx[t]].statements,
                        ast'[t].declarations[declIdx[t]].statements)]_vars
    /\ [](\A t \in Threads :
            (pc[t] = "inputPath" /\ findTargetShader(ast[t], shaderType[t]) # 0)
            => LET emitted(statements) ==
                       \A i \in 1..Len(statements) :
                           \A g \in GuardedDivisions(statements[i].value) :
                               Find(glslCode[t], generateExpression(g))
               IN emitted(ast[t].declarations[
                              findTargetShader(ast[t], shaderType[t])].statements))

\* C21 witness: the first iteration of optimize has run the statement loop
\* over a ShaderDecl whose first statement was parsed with a BinaryOp of two
\* literals inside an operand and a guarded division as an argument; the
\* operand is a literal now, the division is as it was.
C21_Witness ==
    /\ pc[1] = "dce"
    /\ run[1] = 1
    /\ stats[1].totalPasses = 1
    /\ LET folded(before, after) ==
               /\ before.value.type = "FUNCTION_CALL"
               /\ before.value.arguments[1].type = "BINARY_OP"
               /\ before.value.arguments[1].left.type = "BINARY_OP"
               /\ after.value.arguments[1].left.type = "LITERAL"
               /\ GuardedDivision(before.value.arguments[3])
               /\ after.value.arguments[3] = before.value.arguments[3]
       IN folded(parse(tokens[1]).node.declarations[1].statements[1],
                 ast[1].declarations[1].statements[1])

(***************************************************************************)
(* C22: folding and simplification come before dead-code elimination       *)
(***************************************************************************)

\* The statements of the ShaderDecls from the d-th whose value is a BinaryOp
\* of two literals that folding evaluates.
RECURSIVE FoldableAssignments(_, _)
FoldableAssignments(program, d) ==
    IF d > Len(program.declarations) THEN 0
    ELSE Cardinality({i \in 1..Len(program.declarations[d].statements) :
                          IsFoldable(program.declarations[d].statements[i].value)})
             + FoldableAssignments(program, d + 1)

\* C22: in an iteration of optimize, dead-code elimination removes
\* statements only of ShaderDecls whose statements constant folding and
\* algebraic simplification have been applied to in that iteration; and when
\* optimize returns, constants_folded counts every assignment of a BinaryOp
\* of two literals of the program, the dead ones included, whichever
\* ShaderDecl they are in.
C22_FoldedBeforeEliminated ==
    /\ [][\A t \in Threads :
            (pc[t] = "dce" /\ pc'[t] # "dce")
            => \A d \in (declIdx[t] + 1)..Len(ast[t].declarations) :
                   ast'[t].declarations[d].statements
                       = ast[t].declarations[d].statements]_vars
    /\ [](\A t \in Threads :
            (pc[t] = "optimized" /\ run[t] = 1)
            => stats[t].constantsFolded
                   >= FoldableAssignments(parse(tokens[t]).node, 1))

(***************************************************************************)
(* C23: removal is stable                                                  *)
(***************************************************************************)

\* The sequence `after` from its i-th element is a subsequence of `before`
\* from its j-th.
RECURSIVE IsSubsequence(_, _, _, _)
IsSubsequence(after, before, i, j) ==
    IF i > Len(after) THEN TRUE
    ELSE IF j > Len(before) THEN FALSE
    ELSE IF after[i] = before[j]
    THEN IsSubsequence(after, before, i + 1, j + 1)
    ELSE IsSubsequence(after, before, i, j + 1)

\* The targets of a statement list, in its order.
TargetsOf(statements) ==
    [i \in 1..Len(statements) |-> statements[i].target]

\* The text of a main function that has the statements of the list, one on a
\* line, from the first to the last.
RECURSIVE LinesInOrder(_)
LinesInOrder(statements) ==
    IF statements = <<>> THEN ""
    ELSE LinesInOrder(SubSeq(statements, 1, Len(statements) - 1))
             \o "    " \o generateExpression(statements[Len(statements)].target)
             \o " = " \o generateExpression(statements[Len(statements)].value)
             \o ";\n"

\* The text ends with the tail.
EndsWith(text, tail) ==
    /\ Len(tail) <= Len(text)
    /\ SubSeq(text, Len(text) - Len(tail) + 1, Len(text)) = tail

\* C23: a step of dead-code elimination leaves of every ShaderDecl a
\* subsequence of its statement list; a step of the statement loop keeps the
\* number and the targets of the statements; so at every point of optimize
\* and at its return the targets of every ShaderDecl are a subsequence of
\* the targets the parser read; and the GLSL text ends with the main
\* function that has the statements of the requested ShaderDecl in that
\* order and no other.
C23_RemovalStable ==
    /\ [][\A t \in Threads :
            (StageNumber(pc[t]) = 3 /\ ast[t].type = "PROGRAM")
            => /\ Len(ast'[t].declarations) = Len(ast[t].declarations)
               /\ \A d \in 1..Len(ast[t].declarations) :
                      LET kept(before, after) ==
                              IF pc[t] = "dce"
                              THEN IsSubsequence(after, before, 1, 1)
                              ELSE TargetsOf(after) = TargetsOf(before)
                      IN kept(ast[t].declarations[d].statements,
                              ast'[t].declarations[d].statements)]_vars
    /\ [](\A t \in Threads :
            (StageNumber(pc[t]) = 3 /\ ast[t].type = "PROGRAM")
            => LET kept(before, after) ==
                       /\ Len(after) = Len(before)
                       /\ \A d \in 1..Len(before) :
                              IsSubsequence(TargetsOf(after[d].statements),
                                            TargetsOf(before[d].statements),
                                            1, 1)
               IN kept(parse(tokens[t]).node.declarations,
                       ast[t].declarations))
    /\ [](\A t \in Threads :
            (pc[t] = "inputPath" /\ findTargetShader(ast[t], shaderType[t]) # 0)
            => EndsWith(glslCode[t],
                   "void main() {\n"
                       \o LinesInOrder(ast[t].declarations[
                              findTargetShader(ast[t], shaderType[t])].statements)
                       \o "}\n"))

\* C23 witness: the GLSL text is written for a ShaderDecl of which the
\* optimizer removed a statement that stood between two statements it kept.
C23_Witness ==
    /\ pc[1] = "inputPath"
    /\ optimizationEnabled[1]
    /\ findTargetShader(ast[1], shaderType[1]) # 0
    /\ LET between(before, after) ==
               \E i, j, k \in 1..Len(before) :
                   /\ i < j /\ j < k
                   /\ \E m, n \in 1..Len(after) :
                          /\ m < n
                          /\ after[m] = before[i]
                          /\ after[n] = before[k]
                   /\ \A m \in 1..Len(after) : after[m] # before[j]
       IN between(TargetsOf(parse(tokens[1]).node.declarations[
                      findTargetShader(ast[1], shaderType[1])].statements),
                  TargetsOf(ast[1].declarations[
                      findTargetShader(ast[1], shaderType[1])].statements))

(***************************************************************************)
(* C24: constant combination                                               *)
(***************************************************************************)

\* The node has the shape (x op c1) op c2, op being + or *.
IsLeftChain(node) ==
    /\ node.type = "BINARY_OP"
    /\ node.op \in {"+", "*"}
    /\ node.right.type = "LITERAL"
    /\ node.left.type = "BINARY_OP"
    /\ node.left.op = node.op
    /\ node.left.right.type = "LITERAL"

\* The node has the shape c1 op (x op c2), op being + or *.
IsRightChain(node) ==
    /\ node.type = "BINARY_OP"
    /\ node.op \in {"+", "*"}
    /\ node.left.type = "LITERAL"
    /\ node.right.type = "BINARY_OP"
    /\ node.right.op = node.op
    /\ node.right.right.type = "LITERAL"

IsChain(node) == IsLeftChain(node) \/ IsRightChain(node)

\* x, c1 and c2 of a node of one of the two shapes.
ChainParts(node) ==
    IF IsLeftChain(node)
    THEN [x |-> node.left.left, c1 |-> node.left.right, c2 |-> node.right]
    ELSE [x |-> node.right.left, c1 |-> node.left, c2 |-> node.right.right]

\* The literal for c1 op c2: the default rendering of the result.
CombinedLiteral(op, c1, c2) ==
    LiteralNode(Render(ArithmeticResult(op, stof(c1.value), stof(c2.value))))

\* `after` is `before` with every BinaryOp of one of the two shapes that is
\* an assignment value or a FunctionCall argument (slot says that `before`
\* is one) rewritten to x op c; a value or argument that is the left side of
\* an identity of the rewrite table is not looked into.
RECURSIVE Combined(_, _, _)
Combined(before, after, slot) ==
    CASE slot /\ IsChain(before) ->
             /\ after.type = "BINARY_OP"
             /\ after.op = before.op
             /\ after.right = CombinedLiteral(before.op, ChainParts(before).c1,
                                              ChainParts(before).c2)
             /\ Combined(ChainParts(before).x, after.left, FALSE)
      [] slot /\ ~IsChain(before) /\ MatchesRewrite(before) -> TRUE
      [] before.type = "BINARY_OP" /\ ~(slot /\ MatchesRewrite(before)) ->
             /\ after.type = "BINARY_OP"
             /\ after.op = before.op
             /\ Combined(before.left, after.left, FALSE)
             /\ Combined(before.right, after.right, FALSE)
      [] before.type = "FUNCTION_CALL" ->
             /\ after.type = "FUNCTION_CALL"
             /\ Len(after.arguments) = Len(before.arguments)
             /\ \A i \in 1..Len(before.arguments) :
                    Combined(before.arguments[i], after.arguments[i], TRUE)
      [] OTHER -> after = before

\* The values and arguments of the expression, at any depth, that are the
\* left side of a row of the rewrite table: the constant combinations when
\* chains is TRUE, the identities with 0 and 1 otherwise.
RECURSIVE RewrittenSlots(_, _, _)
RewrittenSlots(node, slot, chains) ==
    (IF slot /\ MatchesRewrite(node) /\ (IsChain(node) <=> chains)
     THEN 1 ELSE 0)
    + CASE node.type = "BINARY_OP" ->
               RewrittenSlots(node.left, FALSE, chains)
                   + RewrittenSlots(node.right, FALSE, chains)
        [] node.type = "FUNCTION_CALL" ->
               LET RECURSIVE sum(_)
                   sum(i) == IF i = 0 THEN 0
                             ELSE RewrittenSlots(node.arguments[i], TRUE, chains)
                                      + sum(i - 1)
               IN sum(Len(node.arguments))
        [] OTHER -> 0

\* What C24 says of one statement as constant folding left it and of what
\* algebraicSimplificationPass makes of it.
CombinesConstants(stmt, simplified) ==
    simplified.thrown = ""
        => /\ Combined(stmt.value, simplified.node.value, TRUE)
           /\ simplified.folded = RewrittenSlots(stmt.value, TRUE, TRUE)
           /\ simplified.simplified
                  = RewrittenSlots(stmt.value, TRUE, TRUE)
                        + RewrittenSlots(stmt.value, TRUE, FALSE)

\* The factors of a product that are literals.
RECURSIVE LiteralFactors(_)
LiteralFactors(node) ==
    CASE node.type = "LITERAL" -> 1
      [] node.type = "BINARY_OP" /\ node.op = "*" ->
             LiteralFactors(node.left) + LiteralFactors(node.right)
      [] OTHER -> 0

\* C24: when the statement loop of optimize runs over a ShaderDecl,
\* algebraicSimplificationPass rewrites every (x op c1) op c2 and
\* c1 op (x op c2), op being + or *, that is an assignment value or a
\* FunctionCall argument to x op c with c the literal for c1 op c2, and adds
\* one to algebraic_simplifications and one to constants_folded for each;
\* and when optimize returns on `outColor = vec4(c * 3.0 * 2.0 * 0.5, 1.0);`,
\* the first argument is `c * 3`, two rewrites having been counted.
C24_ConstantsCombined ==
    /\ [][\A t \in Threads :
            (pc[t] = "statements" /\ pc'[t] = "dce")
            => LET combines(before) ==
                       \A i \in 1..Len(before) :
                           LET simplifies(f) ==
                                   f.thrown = ""
                                       => CombinesConstants(f.node,
                                              algebraicSimplificationPass(f.node))
                           IN simplifies(constantFoldingPass(before[i]))
               IN combines(ast[t].declarations[declIdx[t]].statements)]_vars
    /\ [](\A t \in Threads :
            (pc[t] = "optimized" /\ run[t] = 1)
            => LET ends(before, after) ==
                       \A d \in 1..Len(before) :
                           \A i \in 1..Len(before[d].statements) :
                               (/\ Len(after[d].statements)
                                       = Len(before[d].statements)
                                /\ before[d].statements[i].value.type
                                       = "FUNCTION_CALL"
                                /\ before[d].statements[i].value.arguments # <<>>
                                /\ generateExpression(
                                       before[d].statements[i].value.arguments[1])
                                       = "(((c * 3.0) * 2.0) * 0.5)")
                               => /\ after[d].statements[i].value.arguments[1]
                                         = BinaryOpNode("*", IdentifierNode("c"),
                                                        LiteralNode("3"))
                                  /\ LiteralFactors(
                                         after[d].statements[i].value.arguments[1])
                                         = 1
                                  /\ stats[t].algebraicSimplifications >= 2
                                  /\ stats[t].constantsFolded >= 2
               IN ends(parse(tokens[t]).node.declarations,
                       ast[t].declarations))

\* C24 witness: optimize has returned on scenario S2 with two constant
\* combinations counted and no other rewrite.
C24_Witness ==
    /\ pc[1] = "optimized"
    /\ run[1] = 1
    /\ Len(ast[1].declarations) = 1
    /\ Len(ast[1].declarations[1].statements) = 1
    /\ generateExpression(parse(tokens[1]).node.declarations[1].statements[1].value)
           = "vec4((((c * 3.0) * 2.0) * 0.5), 1.0)"
    /\ generateExpression(ast[1].declarations[1].statements[1].value)
           = "vec4((c * 3), 1.0)"
    /\ stats[1].constantsFolded = 2
    /\ stats[1].algebraicSimplifications = 2

(***************************************************************************)
(* C25: the GLSL text of a stage depends on the ShaderDecl of that stage   *)
(* only                                                                    *)
(***************************************************************************)

\* The ShaderDecl of the requested stage as the parser read it, NullNode when
\* the text has none.
RequestedDecl(t) ==
    LET requested(program) ==
            IF program.type # "PROGRAM" THEN NullNode
            ELSE IF findTargetShader(program, shaderType[t]) = 0 THEN NullNode
            ELSE program.declarations[findTargetShader(program, shaderType[t])]
    IN requested(parse(tokens[t]).node)

\* The call of thread t has its GLSL text or has thrown.
Generated(t) == pc[t] \in {"inputPath", "thrown"}

\* C25: two compilations for the same stage, with the optimizer enabled, of
\* sources whose ShaderDecl of that stage is the same end alike, with the
\* same GLSL text, whatever ShaderDecl of the other stage either source has
\* before it or after it.
C25_StageIndependent ==
    (/\ Generated(1) /\ Generated(2)
     /\ shaderType[1] = shaderType[2]
     /\ optimizationEnabled[1] /\ optimizationEnabled[2]
     /\ RequestedDecl(1) # NullNode
     /\ RequestedDecl(1) = RequestedDecl(2))
    => /\ pc[1] = pc[2]
       /\ glslCode[1] = glslCode[2]

(***************************************************************************)
(* C26: an iteration that reports a change removes nodes                   *)
(***************************************************************************)

\* The iterations of optimize that have ended with `changed` set, at the
\* test of the while loop.
ChangedIterations(t) ==
    IF changed[t] THEN stats[t].totalPasses ELSE stats[t].totalPasses - 1

\* C26: no step of an iteration of optimize adds a node to the Program; the
\* statement loop over a ShaderDecl and the dead-code elimination each leave
\* fewer nodes than they found whenever they report a change; so at the
\* test of the loop the Program has lost at least one node for every
\* iteration that reported a change.
C26_ChangeRemovesNodes ==
    /\ [][\A t \in Threads :
            (pc[t] = "statements" /\ pc'[t] = "dce")
            => LET fewer(passed) ==
                       /\ countASTNodes(ast'[t]) <= countASTNodes(ast[t])
                       /\ passed.changed
                              => countASTNodes(ast'[t]) < countASTNodes(ast[t])
               IN fewer(optimizeStatements(
                            ast[t].declarations[declIdx[t]].statements, 1,
                            PassResult(<<>>, FALSE, 0, 0)))]_vars
    /\ [][\A t \in Threads :
            (pc[t] = "dce" /\ pc'[t] # "dce")
            => LET fewer(dead) ==
                       /\ countASTNodes(ast'[t]) <= countASTNodes(ast[t])
                       /\ dead.changed
                              => countASTNodes(ast'[t]) < countASTNodes(ast[t])
               IN fewer(deadCodeEliminationPass(ast[t]))]_vars
    /\ [](\A t \in Threads :
            (pc[t] = "optimize" /\ run[t] = 1)
            => countASTNodes(ast[t]) + ChangedIterations(t)
                   <= countASTNodes(parse(tokens[t]).node))

\* C26 witness: optimize is at the test of its loop after three iterations
\* that reported a change, having folded, simplified and eliminated.
C26_Witness ==
    /\ pc[1] = "optimize"
    /\ run[1] = 1
    /\ changed[1]
    /\ stats[1].totalPasses >= 3
    /\ stats[1].constantsFolded > 0
    /\ stats[1].algebraicSimplifications > 0
    /\ stats[1].deadCodeRemoved > 0
    /\ countASTNodes(ast[1]) < countASTNodes(parse(tokens[1]).node)

(***************************************************************************)
(* C27: the statistics of a compilation are consistent                     *)
(***************************************************************************)

\* C27: when compile has returned, with the optimizer enabled the statement
\* count after optimization is at most the count before it and their
\* difference is deadCodeEliminated; with the optimizer disabled the two
\* counts are equal and constantsFolded, deadCodeEliminated,
\* algebraicSimplifications and optimizationPasses are 0.
C27_StatisticsConsistent ==
    \A t \in Threads :
        pc[t] = "returned"
        => IF optimizationEnabled[t]
           THEN /\ compilerStats[t].optimizedStatementCount
                       <= compilerStats[t].originalStatementCount
                /\ compilerStats[t].originalStatementCount
                       - compilerStats[t].optimizedStatementCount
                       = compilerStats[t].deadCodeEliminated
           ELSE /\ compilerStats[t].optimizedStatementCount
                       = compilerStats[t].originalStatementCount
                /\ compilerStats[t].constantsFolded = 0
                /\ compilerStats[t].deadCodeEliminated = 0
                /\ compilerStats[t].algebraicSimplifications = 0
                /\ compilerStats[t].optimizationPasses = 0

\* C27 witness: compile has returned with the optimizer enabled on a program
\* of two ShaderDecls, a statement of the second having been eliminated.
C27_Witness ==
    /\ pc[1] = "returned"
    /\ optimizationEnabled[1]
    /\ compilerStats[1].deadCodeEliminated > 0
    /\ compilerStats[1].optimizationPasses > 1
    /\ Len(ast[1].declarations) = 2
    /\ Len(ast[1].declarations[2].statements)
           < Len(parse(tokens[1]).node.declarations[2].statements)

(***************************************************************************)
(* C28: dead-code elimination is complete at a fixed point                 *)
(***************************************************************************)

\* Every assignment of the ShaderDecl to a variable or to a member of one
\* has a target that is live: read by the value of a statement of the
\* ShaderDecl, a declared output, or a built-in output.
NoDeadAssignment(shader) ==
    \A i \in 1..Len(shader.statements) :
        IsLvalue(shader.statements[i].target)
        => BaseName(shader.statements[i].target)
               \in NamesReadIn(shader) \cup OutputNames(shader)
                       \cup {"gl_Position", "gl_FragColor", "gl_FragDepth"}

\* C28: when optimize returns after fewer than 10 iterations, no ShaderDecl
\* of the Program has an assignment left whose target nothing reads and
\* that is no output.
C28_NoDeadAssignmentLeft ==
    \A t \in Threads :
        (pc[t] = "optimized" /\ stats[t].totalPasses < maxPasses)
        => \A d \in 1..Len(ast[t].declarations) :
               NoDeadAssignment(ast[t].declarations[d])

\* C28 witness: optimize has returned after fewer than 10 iterations on a
\* program in which an assignment was read only by an assignment that was
\* itself dead; three iterations removed a statement each, and the
\* statements read by the output remain.
C28_Witness ==
    /\ pc[1] = "optimized"
    /\ run[1] = 1
    /\ stats[1].totalPasses < maxPasses
    /\ stats[1].totalPasses > 3
    /\ stats[1].deadCodeRemoved >= 3
    /\ Len(ast[1].declarations) = 1
    /\ ast[1].declarations[1].statements # <<>>
    /\ ~NoDeadAssignment(parse(tokens[1]).node.declarations[1])

(***************************************************************************)
(* C29: operator precedence and associativity                              *)
(***************************************************************************)

\* The first token of the type at or after `from`; 0 when there is none.
NextOfType(toks, from, type) ==
    LET first(found) ==
            IF found = {} THEN 0
            ELSE CHOOSE i \in found : \A j \in found : i <= j
    IN first({i \in from..Len(toks) : toks[i].type = type})

\* The token ranges of the values of the assignments of a token list, from
\* the token `from`: what is between a `=` and the next `;`.
RECURSIVE ValueRanges(_, _)
ValueRanges(toks, from) ==
    LET range(assign) ==
            IF assign = 0 THEN <<>>
            ELSE LET upTo(semi) ==
                         <<[from |-> assign + 1, to |-> semi - 1]>>
                             \o ValueRanges(toks, semi + 1)
                 IN upTo(NextOfType(toks, assign, "SEMICOLON"))
    IN range(NextOfType(toks, from, "ASSIGN"))

\* The last token of one of the types in from..to that is inside no
\* parentheses opened in the range; 0 when there is none.
LastOutside(toks, from, to, types) ==
    LET last(found) ==
            IF found = {} THEN 0
            ELSE CHOOSE i \in found : \A j \in found : i >= j
    IN last({i \in from..to :
                /\ toks[i].type \in types
                /\ Cardinality({j \in from..i : toks[j].type = "LPAREN"})
                       = Cardinality({j \in from..i : toks[j].type = "RPAREN"})})

\* The tree the grammar gives the tokens from..to of an expression: it is
\* split at the last + or - outside parentheses, for want of one at the last
\* * or /; parentheses around it add nothing; what remains is a number, a
\* name, a member of a name or a call.
RECURSIVE TreeOf(_, _, _)
RECURSIVE TreesOf(_, _, _)
TreeOf(toks, from, to) ==
    LET split(additive, multiplicative) ==
            IF additive # 0
            THEN BinaryOpNode(toks[additive].value,
                              TreeOf(toks, from, additive - 1),
                              TreeOf(toks, additive + 1, to))
            ELSE IF multiplicative # 0
            THEN BinaryOpNode(toks[multiplicative].value,
                              TreeOf(toks, from, multiplicative - 1),
                              TreeOf(toks, multiplicative + 1, to))
            ELSE IF toks[from].type = "LPAREN"
            THEN TreeOf(toks, from + 1, to - 1)
            ELSE IF from = to
            THEN IF toks[from].type = "NUMBER"
                 THEN LiteralNode(toks[from].value)
                 ELSE IdentifierNode(toks[from].value)
            ELSE IF toks[from + 1].type = "DOT"
            THEN MemberAccessNode(IdentifierNode(toks[from].value),
                                  toks[to].value)
            ELSE FunctionCallNode(toks[from].value,
                                  TreesOf(toks, from + 2, to - 1))
    IN split(LastOutside(toks, from, to, {"PLUS", "MINUS"}),
             LastOutside(toks, from, to, {"MULTIPLY", "DIVIDE"}))

\* The trees of the arguments from..to of a call, which commas separate.
TreesOf(toks, from, to) ==
    LET split(comma) ==
            IF from > to THEN <<>>
            ELSE IF comma = 0 THEN <<TreeOf(toks, from, to)>>
            ELSE Append(TreesOf(toks, from, comma - 1),
                        TreeOf(toks, comma + 1, to))
    IN split(LastOutside(toks, from, to, {"COMMA"}))

\* The values of the assignments of a Program, ShaderDecl after ShaderDecl
\* from the d-th.
RECURSIVE ValuesOf(_, _)
ValuesOf(program, d) ==
    IF d > Len(program.declarations) THEN <<>>
    ELSE [i \in 1..Len(program.declarations[d].statements) |->
              program.declarations[d].statements[i].value]
             \o ValuesOf(program, d + 1)

\* The parser has returned the AST of compilation t and no pass has run.
JustParsed(t) ==
    /\ ast[t].type = "PROGRAM"
    /\ \/ pc[t] = "optimize" /\ run[t] = 1 /\ stats[t].totalPasses = 0
       \/ pc[t] = "generate" /\ ~optimizationEnabled[t]

\* C29: the value the parser builds for every assignment of an accepted
\* program is the tree of its tokens in which * and / bind tighter than +
\* and -, operators of one precedence associate to the left and parentheses
\* add no node; `a - b - c` is BinaryOp(-, BinaryOp(-, a, b), c) and
\* `a + b * c` is BinaryOp(+, a, BinaryOp(*, b, c)).
C29_PrecedenceAndAssociativity ==
    \A t \in Threads :
        JustParsed(t)
        => LET agrees(values, ranges) ==
                   /\ Len(values) = Len(ranges)
                   /\ \A k \in 1..Len(values) :
                          /\ values[k]
                                 = TreeOf(tokens[t], ranges[k].from, ranges[k].to)
                          /\ JoinRange(tokens[t], ranges[k].from, ranges[k].to)
                                 = "a - b - c"
                             => values[k]
                                    = BinaryOpNode("-",
                                          BinaryOpNode("-", IdentifierNode("a"),
                                                       IdentifierNode("b")),
                                          IdentifierNode("c"))
                          /\ JoinRange(tokens[t], ranges[k].from, ranges[k].to)
                                 = "a + b * c"
                             => values[k]
                                    = BinaryOpNode("+", IdentifierNode("a"),
                                          BinaryOpNode("*", IdentifierNode("b"),
                                                       IdentifierNode("c")))
           IN agrees(ValuesOf(ast[t], 1), ValueRanges(tokens[t], 1))

\* C29 witness: the parser has accepted a program with `a - b - c`,
\* `a + b * c`, a product of a parenthesized sum and an expression in double
\* parentheses.
C29_Witness ==
    /\ JustParsed(1)
    /\ Len(ast[1].declarations) = 1
    /\ Len(ast[1].declarations[1].statements) >= 5
    /\ \A text \in {"a - b - c", "a + b * c", "( a + b ) * c", "( ( a ) )"} :
           \E k \in 1..Len(ValueRanges(tokens[1], 1)) :
               JoinRange(tokens[1], ValueRanges(tokens[1], 1)[k].from,
                         ValueRanges(tokens[1], 1)[k].to) = text
    /\ ast[1].declarations[1].statements[5].value = IdentifierNode("a")


\* C30: automatic swapchain recreation on resize.  Whenever the
\* framebuffer-resize callback has set framebufferResized while the render
\* loop runs, recreateSwapchain eventually runs (resizeCount grows) unless
\* the loop ends; and no step of drawFrame clears framebufferResized without
\* recreating the swapchain, the steps taken while the resize throttle is in
\* effect and acquire and present report success included.
C30_RecreatedOnResize ==
    /\ [][(framebufferResized /\ ~framebufferResized')
              => resizeCount' = resizeCount + 1]_vars
    /\ \A k \in 0..MaxTime :
          [](framebufferResized /\ running /\ resizeCount = k
                 => <>(resizeCount > k \/ ~running))

====
